---- MODULE Spec2Model ----
(***************************************************************************)
(* Model of the Transmission 4.0.6 tracker-request camouflage of          *)
(* camouflagetorrentclients: the announce rewriter                        *)
(* (transmission/announce.go), its identity store and the scrape tasks it *)
(* registers (transmission/scrape.go), and the query model                *)
(* (commons/common.go).                                                   *)
(*                                                                         *)
(* Go strings are TLA+ strings (TLC evaluates \o, Len and SubSeq on       *)
(* them).  A *url.URL is a record [scheme, host, path, rawQuery]; a       *)
(* url.Values is a function from the names present to the non-empty       *)
(* sequence of their values; an *http.Request is [method, url, header,    *)
(* body].                                                                  *)
(***************************************************************************)
EXTENDS Integers, Sequences, FiniteSets, TLC

(***************************************************************************)
(* Bounds of the model.                                                    *)
(***************************************************************************)
\* announces of the one goroutine of SeqSpec that may pass the input
\* validation in one behaviour; each of them calls createPerTorrent once
MaxAnnounces == 3
\* the same for the concurrent goroutines of Spec
MaxRaceAnnounces == 2
\* tracker-request goroutines of the host engine that may be inside
\* HttpRequestDirector at the same time
NumGoroutines == 2
\* directors that may be passed to NewDirectors
MaxDirectors == 3
\* the announces that may pass the input validation while the scheduler
\* runs tasks
MaxScrapeAnnounces == 2
\* executions of scrapeTask.run the scheduler may begin
MaxRuns == 2
NumTorrents == 41
MaxTicks == 1
MaxLimiterAnnounces == 1
NumDrainedTorrents == 2
MaxTokensLeft == 1
\* definitions that may be passed to ProcessQuery
MaxDefs == 3
\* parameters of a QueryParams value that is written as a string
MaxParams == 2
\* fragments of a raw query string that is parsed
MaxFragments == 3

Goroutines == 1..NumGoroutines

(***************************************************************************)
(* package strings                                                         *)
(***************************************************************************)
Char(s, i) == SubSeq(s, i, i)

HasPrefix(s, pre) == Len(s) >= Len(pre) /\ SubSeq(s, 1, Len(pre)) = pre

HasSuffix(s, suf) ==
    Len(s) >= Len(suf) /\ SubSeq(s, Len(s) - Len(suf) + 1, Len(s)) = suf

\* strings.Index: the 0-based index of the first occurrence of sub in s, -1
\* when there is none
Index(s, sub) ==
    LET at == {i \in 0..(Len(s) - Len(sub)) : SubSeq(s, i + 1, i + Len(sub)) = sub}
    IN IF at = {} THEN -1 ELSE CHOOSE i \in at : \A j \in at : i <= j

\* strings.Split(s, sep) for a non-empty sep: always at least one element
RECURSIVE Split(_, _)
Split(s, sep) ==
    LET i == Index(s, sep) IN
    IF i = -1 THEN <<s>>
    ELSE <<SubSeq(s, 1, i)>> \o Split(SubSeq(s, i + Len(sep) + 1, Len(s)), sep)

\* strings.Join
RECURSIVE Join(_, _)
Join(frags, sep) ==
    IF frags = <<>> THEN ""
    ELSE IF Len(frags) = 1 THEN frags[1]
    ELSE frags[1] \o sep \o Join(Tail(frags), sep)

(***************************************************************************)
(* package path and URL.JoinPath.  The paths of the model hold no byte     *)
(* that a URL path escapes, so that EscapedPath is the path itself.        *)
(***************************************************************************)
\* the elements of a rooted path that path.Clean keeps: an empty element
\* and "." are dropped, ".." drops the element before it (none at the root)
RECURSIVE CleanFrom(_, _)
CleanFrom(elems, kept) ==
    IF elems = <<>> THEN kept
    ELSE LET e == Head(elems) IN
         IF e = "" \/ e = "." THEN CleanFrom(Tail(elems), kept)
         ELSE IF e = ".."
         THEN CleanFrom(Tail(elems),
                        IF kept = <<>> THEN kept ELSE SubSeq(kept, 1, Len(kept) - 1))
         ELSE CleanFrom(Tail(elems), Append(kept, e))

\* path.Clean of a rooted path
Clean(p) == "/" \o Join(CleanFrom(Split(p, "/"), <<>>), "/")

\* u.JoinPath(elem) for an elem without a trailing slash: a copy of u with
\* the cleaned join of its path and elem; a path that is not rooted is
\* cleaned as a rooted one and the leading slash removed
JoinPath(u, elem) ==
    IF HasPrefix(u.path, "/")
    THEN [u EXCEPT !.path = Clean(u.path \o "/" \o elem)]
    ELSE LET p == Clean("/" \o u.path \o "/" \o elem)
         IN [u EXCEPT !.path = SubSeq(p, 2, Len(p))]

(***************************************************************************)
(* package net/url: escaping of query components.  The bytes the model     *)
(* uses are the unreserved ones and those CharCode lists.                  *)
(***************************************************************************)
Unreserved ==
    {"a","b","c","d","e","f","g","h","i","j","k","l","m","n","o","p","q","r",
     "s","t","u","v","w","x","y","z",
     "A","B","C","D","E","F","G","H","I","J","K","L","M","N","O","P","Q","R",
     "S","T","U","V","W","X","Y","Z",
     "0","1","2","3","4","5","6","7","8","9","-","_",".","~"}

CharCode ==
    [c \in {" ", "#", "%", "&", "+", "/", ":", ";", "=", "?"} |->
        CASE c = " " -> 32 [] c = "#" -> 35 [] c = "%" -> 37 [] c = "&" -> 38
          [] c = "+" -> 43 [] c = "/" -> 47 [] c = ":" -> 58 [] c = ";" -> 59
          [] c = "=" -> 61 [] c = "?" -> 63]

UpperHex ==
    <<"0","1","2","3","4","5","6","7","8","9","A","B","C","D","E","F">>

HexValue(c) ==
    IF \E i \in 1..16 : UpperHex[i] = c
    THEN (CHOOSE i \in 1..16 : UpperHex[i] = c) - 1
    ELSE IF c \in {"a","b","c","d","e","f"}
    THEN (CHOOSE i \in 11..16 :
            UpperHex[i] = CASE c = "a" -> "A" [] c = "b" -> "B" [] c = "c" -> "C"
                            [] c = "d" -> "D" [] c = "e" -> "E" [] c = "f" -> "F") - 1
    ELSE -1

\* url.QueryEscape: unreserved bytes stay, space becomes '+', every other
\* byte becomes %HH with upper-case hex digits
RECURSIVE QueryEscape(_)
QueryEscape(s) ==
    IF s = "" THEN ""
    ELSE LET c == Char(s, 1)
             rest == QueryEscape(SubSeq(s, 2, Len(s)))
         IN IF c \in Unreserved THEN c \o rest
            ELSE IF c = " " THEN "+" \o rest
            ELSE "%" \o UpperHex[(CharCode[c] \div 16) + 1]
                     \o UpperHex[(CharCode[c] % 16) + 1] \o rest

\* url.QueryUnescape: [ok, s]; '+' becomes space, %HH becomes the byte, a
\* '%' not followed by two hex digits is an error
RECURSIVE QueryUnescape(_)
QueryUnescape(s) ==
    IF s = "" THEN [ok |-> TRUE, s |-> ""]
    ELSE LET c == Char(s, 1) IN
         IF c = "%" THEN
             IF Len(s) < 3 \/ HexValue(Char(s, 2)) = -1 \/ HexValue(Char(s, 3)) = -1
             THEN [ok |-> FALSE, s |-> ""]
             ELSE LET code == 16 * HexValue(Char(s, 2)) + HexValue(Char(s, 3))
                      rest == QueryUnescape(SubSeq(s, 4, Len(s)))
                  IN IF ~rest.ok \/ ~(\E b \in DOMAIN CharCode : CharCode[b] = code)
                     THEN [ok |-> FALSE, s |-> ""]
                     ELSE [ok |-> TRUE,
                           s |-> (CHOOSE b \in DOMAIN CharCode : CharCode[b] = code)
                                    \o rest.s]
         ELSE LET rest == QueryUnescape(SubSeq(s, 2, Len(s))) IN
              IF ~rest.ok THEN rest
              ELSE [ok |-> TRUE, s |-> (IF c = "+" THEN " " ELSE c) \o rest.s]

(***************************************************************************)
(* package net/url: url.Values, URL.Query, URL.String                      *)
(***************************************************************************)
EmptyValues == <<>>

Has(q, name) == name \in DOMAIN q

\* Values.Get: the first value of name, "" when name is absent
Get(q, name) == IF Has(q, name) THEN q[name][1] ELSE ""

\* Values.Set: name gets the single value v
Set(q, name, v) == [n \in DOMAIN q \cup {name} |-> IF n = name THEN <<v>> ELSE q[n]]

\* Values.Add: v is appended to the values of name
Add(q, name, v) ==
    [n \in DOMAIN q \cup {name} |->
        IF n = name THEN (IF Has(q, name) THEN q[name] ELSE <<>>) \o <<v>> ELSE q[n]]

\* url.ParseQuery as URL.Query uses it: fragments between '&'; an empty
\* fragment, one containing ';' and one that does not unescape are dropped;
\* the name is what precedes the first '='
RECURSIVE ParseFragments(_, _)
ParseFragments(frags, q) ==
    IF frags = <<>> THEN q
    ELSE LET f == Head(frags)
             i == Index(f, "=")
             k == QueryUnescape(IF i = -1 THEN f ELSE SubSeq(f, 1, i))
             v == QueryUnescape(IF i = -1 THEN "" ELSE SubSeq(f, i + 2, Len(f)))
         IN IF f = "" \/ Index(f, ";") # -1 \/ ~k.ok \/ ~v.ok
            THEN ParseFragments(Tail(frags), q)
            ELSE ParseFragments(Tail(frags), Add(q, k.s, v.s))

Query(u) == ParseFragments(Split(u.rawQuery, "&"), EmptyValues)

\* URL.String of a URL with scheme, host and path
URLString(u) ==
    u.scheme \o "://" \o u.host \o u.path
        \o (IF u.rawQuery = "" THEN "" ELSE "?" \o u.rawQuery)

(***************************************************************************)
(* package commons: QueryDef, ProcessQuery, QueryParams.Str                *)
(***************************************************************************)
EventStarted == "started"
EventStopped == "stopped"

MustHaveDef(name) == [kind |-> "mustHave", name |-> name, value |-> ""]
OptionalDef(name) == [kind |-> "optional", name |-> name, value |-> ""]
FixedDef(name, value) == [kind |-> "fixed", name |-> name, value |-> value]

\* QueryDef.process: [err, has, param]; err = "" is the nil error and
\* has = FALSE the nil parameter
mustHave(d, q) ==
    IF ~Has(q, d.name)
    THEN [err |-> "query " \o d.name \o " not found", has |-> FALSE,
          param |-> <<d.name, "">>]
    ELSE [err |-> "", has |-> TRUE, param |-> <<d.name, Get(q, d.name)>>]

optional(d, q) ==
    IF ~Has(q, d.name)
    THEN [err |-> "", has |-> FALSE, param |-> <<d.name, "">>]
    ELSE [err |-> "", has |-> TRUE, param |-> <<d.name, Get(q, d.name)>>]

\* a Fixed rule that lets a value of the input win
fixedPrefersInput(d, q) ==
    [err |-> "", has |-> TRUE,
     param |-> <<d.name, IF Has(q, d.name) THEN Get(q, d.name) ELSE d.value>>]

fixed(d, q) == [err |-> "", has |-> TRUE, param |-> <<d.name, d.value>>]

process(d, q) ==
    CASE d.kind = "mustHave" -> mustHave(d, q)
      [] d.kind = "optional" -> optional(d, q)
      [] d.kind = "fixed" -> fixed(d, q)

\* ProcessQuery: [err, params]; the first failing definition ends the walk
\* and no parameters are returned
RECURSIVE ProcessFrom(_, _, _)
ProcessFrom(defs, q, res) ==
    IF defs = <<>> THEN [err |-> "", params |-> res]
    ELSE LET r == process(Head(defs), q) IN
         IF r.err # "" THEN [err |-> r.err, params |-> <<>>]
         ELSE ProcessFrom(Tail(defs), q, IF r.has THEN Append(res, r.param) ELSE res)

ProcessQuery(defs, q) == ProcessFrom(defs, q, <<>>)

\* QueryParams.Str
RECURSIVE StrFrom(_, _)
StrFrom(l, i) ==
    IF i > Len(l) THEN ""
    ELSE (IF i > 1 THEN "&" ELSE "")
            \o QueryEscape(l[i][1]) \o "=" \o QueryEscape(l[i][2])
            \o StrFrom(l, i + 1)

\* a Str that writes names and values as they are
RECURSIVE StrPlainFrom(_, _)
StrPlainFrom(l, i) ==
    IF i > Len(l) THEN ""
    ELSE (IF i > 1 THEN "&" ELSE "") \o l[i][1] \o "=" \o l[i][2]
            \o StrPlainFrom(l, i + 1)

StrPlain(l) == StrPlainFrom(l, 1)

Str(l) == StrFrom(l, 1)

\* QueryParamsFromRawQueryStr: [ok, params]; every fragment between '&' must
\* split at '=' into exactly two parts that unescape, else the error
RECURSIVE ParamsFromPairs(_, _)
ParamsFromPairs(pairs, res) ==
    IF pairs = <<>> THEN [ok |-> TRUE, params |-> res]
    ELSE LET parts == Split(Head(pairs), "=") IN
         IF Len(parts) # 2 THEN [ok |-> FALSE, params |-> <<>>]
         ELSE LET key == QueryUnescape(parts[1])
                  value == QueryUnescape(parts[2])
              IN IF ~key.ok \/ ~value.ok THEN [ok |-> FALSE, params |-> <<>>]
                 ELSE ParamsFromPairs(Tail(pairs), Append(res, <<key.s, value.s>>))

\* a parser that cuts every fragment at its first '=' and takes a fragment
\* without one as a name with an empty value
RECURSIVE ParamsCutAtFirst(_, _)
ParamsCutAtFirst(pairs, res) ==
    IF pairs = <<>> THEN [ok |-> TRUE, params |-> res]
    ELSE LET f == Head(pairs)
             i == Index(f, "=")
             key == QueryUnescape(IF i = -1 THEN f ELSE SubSeq(f, 1, i))
             value == QueryUnescape(IF i = -1 THEN "" ELSE SubSeq(f, i + 2, Len(f)))
         IN IF ~key.ok \/ ~value.ok THEN [ok |-> FALSE, params |-> <<>>]
            ELSE ParamsCutAtFirst(Tail(pairs), Append(res, <<key.s, value.s>>))

QueryParamsFromRawQueryStrLenient(s) ==
    IF s = "" THEN [ok |-> TRUE, params |-> <<>>]
    ELSE ParamsCutAtFirst(Split(s, "&"), <<>>)

QueryParamsFromRawQueryStr(s) ==
    IF s = "" THEN [ok |-> TRUE, params |-> <<>>]
    ELSE ParamsFromPairs(Split(s, "&"), <<>>)

(***************************************************************************)
(* package transmission: identities (announce.go)                          *)
(***************************************************************************)
transmissionV406Bep20 == "-TR4060-"

charSet ==
    <<"0","1","2","3","4","5","6","7","8","9","a","b","c","d","e","f","g","h",
      "i","j","k","l","m","n","o","p","q","r","s","t","u","v","w","x","y","z">>

\* What crypto/rand delivers to one createPerTorrent call: twelve numbers
\* below len(charSet) and four bytes.  The model draws from these.
RandDraws ==
    { [ns |-> <<0, 1, 2, 3, 4, 5, 6, 7, 8, 9, 10, 35>>, kb |-> <<0, 10, 171, 255>>],
      [ns |-> <<35, 20, 11, 29, 0, 7, 7, 15, 33, 2, 18, 9>>, kb |-> <<222, 173, 190, 239>>] }

RECURSIVE PeerIDChars(_, _)
PeerIDChars(ns, i) ==
    IF i > Len(ns) THEN "" ELSE charSet[ns[i] + 1] \o PeerIDChars(ns, i + 1)

\* hex digits without the leading zero of a byte below 16
RECURSIVE HexBytesUnpadded(_, _)
HexBytesUnpadded(kb, i) ==
    IF i > Len(kb) THEN ""
    ELSE (IF kb[i] < 16 THEN "" ELSE UpperHex[(kb[i] \div 16) + 1])
            \o UpperHex[(kb[i] % 16) + 1] \o HexBytesUnpadded(kb, i + 1)

\* fmt.Sprintf("%08X", keyBytes): two upper-case hex digits per byte
RECURSIVE HexBytes(_, _)
HexBytes(kb, i) ==
    IF i > Len(kb) THEN ""
    ELSE UpperHex[(kb[i] \div 16) + 1] \o UpperHex[(kb[i] % 16) + 1]
            \o HexBytes(kb, i + 1)

\* createPerTorrent: a new *perTorrent; ptr is the identity of the object
createPerTorrent(ptr, draw) ==
    [ptr |-> ptr,
     peerID |-> transmissionV406Bep20 \o PeerIDChars(draw.ns, 1),
     key |-> HexBytes(draw.kb, 1)]

\* the nil *perTorrent
NoPerTorrent == [ptr |-> 0, peerID |-> "", key |-> ""]

announceURL(u) == URLString([u EXCEPT !.rawQuery = ""])

\* the key of a store that does not tell trackers apart
perTrackerTorrentIDInfoHashOnly(u, infoHash) == infoHash

\* an id made of the whole announce URL, query included
perTrackerTorrentIDWithQuery(u, infoHash) == URLString(u) \o "--" \o infoHash

perTrackerTorrentID(u, infoHash) == announceURL(u) \o "--" \o infoHash

\* LoadOrStore as a plain Store would do: new replaces what is stored
LoadOrStoreAlwaysStores(m, id, new) ==
    [m |-> [k \in DOMAIN m \cup {id} |-> IF k = id THEN new ELSE m[k]],
     actual |-> new, loaded |-> id \in DOMAIN m]

\* LoadOrStore that hands back the new value also when one is stored
LoadOrStoreFreshActual(m, id, new) ==
    IF id \in DOMAIN m
    THEN [m |-> m, actual |-> new, loaded |-> TRUE]
    ELSE [m |-> [k \in DOMAIN m \cup {id} |-> IF k = id THEN new ELSE m[k]],
          actual |-> new, loaded |-> FALSE]

\* LoadOrStore that never reports the entry as loaded
LoadOrStoreNeverLoaded(m, id, new) ==
    IF id \in DOMAIN m
    THEN [m |-> m, actual |-> m[id], loaded |-> FALSE]
    ELSE [m |-> [k \in DOMAIN m \cup {id} |-> IF k = id THEN new ELSE m[k]],
          actual |-> new, loaded |-> FALSE]

\* LoadOrStore that hands out the new value and keeps nothing
LoadOrStoreKeepsNothing(m, id, new) ==
    IF id \in DOMAIN m
    THEN [m |-> m, actual |-> m[id], loaded |-> TRUE]
    ELSE [m |-> m, actual |-> new, loaded |-> FALSE]

\* LoadOrStore that treats every id as a new one
LoadOrStoreRegenerates(m, id, new) ==
    [m |-> [k \in DOMAIN m \cup {id} |-> IF k = id THEN new ELSE m[k]],
     actual |-> new, loaded |-> FALSE]

\* sync.Map.LoadOrStore(id, new): [m, actual, loaded]
LoadOrStore(m, id, new) ==
    IF id \in DOMAIN m
    THEN [m |-> m, actual |-> m[id], loaded |-> TRUE]
    ELSE [m |-> [k \in DOMAIN m \cup {id} |-> IF k = id THEN new ELSE m[k]],
          actual |-> new, loaded |-> FALSE]

\* a Delete that removes nothing
MapDeleteNothing(m, id) == m

\* sync.Map.Delete(id), and the removal of an id from the scheduler's tasks
MapDelete(m, id) == [k \in DOMAIN m \ {id} |-> m[k]]

(***************************************************************************)
(* package transmission: scrape tasks (scrape.go)                          *)
(***************************************************************************)
\* the nil *scrapeTask and *url.URL
NoURL == [scheme |-> "", host |-> "", path |-> "", rawQuery |-> ""]
NoTask == [scrapeURL |-> NoURL]

\* a scrapeURL that adds to the query the copy of the announce URL has
scrapeURLKeepsAnnounceQuery(u, infoHash, privateTrackerQuery) ==
    IF ~HasSuffix(u.path, "/announce") THEN NoURL
    ELSE LET infoHashQuery == "info_hash=" \o QueryEscape(infoHash)
             own == IF u.rawQuery = "" THEN "" ELSE u.rawQuery \o "&"
         IN
         [JoinPath(u, "../scrape") EXCEPT
            !.rawQuery = own \o (IF privateTrackerQuery # ""
                                 THEN privateTrackerQuery \o "&" \o infoHashQuery
                                 ELSE infoHashQuery)]

\* a scrape URL for every announce path
scrapeURLAnyPath(u, infoHash, privateTrackerQuery) ==
    LET infoHashQuery == "info_hash=" \o QueryEscape(infoHash) IN
    [JoinPath(u, "../scrape") EXCEPT
       !.rawQuery = IF privateTrackerQuery # ""
                    THEN privateTrackerQuery \o "&" \o infoHashQuery
                    ELSE infoHashQuery]

scrapeURL(u, infoHash, privateTrackerQuery) ==
    IF ~HasSuffix(u.path, "/announce") THEN NoURL
    ELSE LET infoHashQuery == "info_hash=" \o QueryEscape(infoHash) IN
         [JoinPath(u, "../scrape") EXCEPT
            !.rawQuery = IF privateTrackerQuery # ""
                         THEN privateTrackerQuery \o "&" \o infoHashQuery
                         ELSE infoHashQuery]

newScrapeTask(u, infoHash, privateTrackerQuery) ==
    LET su == scrapeURL(u, infoHash, privateTrackerQuery) IN
    IF su = NoURL THEN NoTask ELSE [scrapeURL |-> su]

\* scheduleScrape(id, task): nothing for the nil task; otherwise
\* scheduler.AddWithID, which refuses an id in use (tasks.ErrIDInUse, the
\* error is dropped) and leaves the task already scheduled in place
scheduleScrape(sched, id, task) ==
    IF task = NoTask THEN sched
    ELSE IF id \in DOMAIN sched THEN sched
    ELSE [k \in DOMAIN sched \cup {id} |-> IF k = id THEN task ELSE sched[k]]

\* rate.NewLimiter(rate.Limit(maxScrapesPerSecond), maxScrapesPerSecond):
\* a token bucket that starts full.  Time is counted in ticks of
\* 1/maxScrapesPerSecond of a second, the time in which one token accrues.
maxScrapesPerSecond == 40

NewLimiter == [tokens |-> maxScrapesPerSecond, ticks |-> 0]

\* Wait(ctx) with n = 1 returns once a token is there
CanTake(l) == l.tokens >= 1

TakeNothing(l) == l

\* and has taken that token when it returns
Take(l) == [l EXCEPT !.tokens = @ - 1]

\* one tick later the bucket holds one more token, up to its burst
Elapse(l) ==
    [tokens |-> IF l.tokens < maxScrapesPerSecond THEN l.tokens + 1
                ELSE maxScrapesPerSecond,
     ticks |-> l.ticks + 1]

\* scheduler.Del(id) cancels the task of id; cancelled marks the
\* executions of run that belong to a cancelled task
Cancel(rs, id) ==
    [i \in DOMAIN rs |-> IF rs[i].id = id THEN [rs[i] EXCEPT !.cancelled = TRUE]
                         ELSE rs[i]]

\* the scheduler calls TaskFunc of the task of id, which calls task.run():
\* run is at scrapeRateLimiter.Wait
BeginRun(rs, id, task) ==
    Append(rs, [id |-> id, task |-> task, pc |-> "wait", cancelled |-> FALSE,
                failure |-> "", returned |-> "none"])

\* Wait(context.Background()) returns nil: the context of the call is
\* never cancelled and one token is within the burst, so that Wait has no
\* error to return; it returns when the limiter has a token for it
WaitReturns(run) == [run EXCEPT !.pc = "request"]

\* what http.NewRequest and httpClient.Do may answer: the request is built
\* or not, and Do returns a response or an error of the transport
DoOutcomes == {"", "transport"}

\* a task function that returns the failure of run
TaskFuncPropagates(failure) == IF failure = "" THEN "nil" ELSE failure

\* TaskFunc: func() error { task.run(); return nil }.  run has no result.
TaskFuncResult(failure) == "nil"

\* run logs the failure, if any, and returns; TaskFunc returns after it
EndRun(run, failure) ==
    [run EXCEPT !.pc = "done", !.failure = failure,
                !.returned = TaskFuncResult(failure)]

\* the request run builds and hands to httpClient.Do
ScrapeRequest(run) ==
    [method |-> "GET", url |-> URLString(run.task.scrapeURL),
     header |-> [h \in {"User-Agent", "Accept-Encoding", "Accept"} |->
                   CASE h = "User-Agent" -> "Transmission/4.0.6"
                     [] h = "Accept-Encoding" -> "deflate, gzip, br, zstd"
                     [] h = "Accept" -> "*/*"],
     body |-> ""]

(***************************************************************************)
(* package transmission: the announce rewriter (announce.go)               *)
(***************************************************************************)
\* no request is taken for a scrape request
IsScrapeNever(r) == FALSE

\* HttpRequestDirector's test for a scrape request
IsScrape(r) ==
    LET parts == Split(r.url.path, "/") IN parts[Len(parts)] = "scrape"

\* the prefix parsed and serialized again
privateTrackerQueryReencoded(rawQuery) ==
    LET index == Index(rawQuery, "&compact") IN
    IF index # -1
    THEN Str(QueryParamsFromRawQueryStr(SubSeq(rawQuery, 1, index)).params)
    ELSE ""

\* what precedes the first "&compact" of the raw query, "" without one
privateTrackerQueryOf(rawQuery) ==
    LET index == Index(rawQuery, "&compact") IN
    IF index # -1 THEN SubSeq(rawQuery, 1, index) ELSE ""

\* the checks without the one of compact
validationErrorCompactUnchecked(q) ==
    IF Has(q, "numwant") THEN "anacrolix/torrent provides numwant"
    ELSE IF Get(q, "supportcrypto") # "1"
    THEN "anacrolix/torrent provides supportcrypto!=1"
    ELSE IF Get(q, "info_hash") = "" THEN "missing info_hash"
    ELSE ""

\* the checks of modifyQuery that precede the identity store: the error's
\* message, "" when all pass
validationError(q) ==
    IF Has(q, "numwant") THEN "anacrolix/torrent provides numwant"
    ELSE IF Get(q, "compact") # "1" THEN "anacrolix/torrent provides compact!=1"
    ELSE IF Get(q, "supportcrypto") # "1"
    THEN "anacrolix/torrent provides supportcrypto!=1"
    ELSE IF Get(q, "info_hash") = "" THEN "missing info_hash"
    ELSE ""

\* the definitions with left optional
queryDefsLeftOptional ==
    << MustHaveDef("info_hash"), MustHaveDef("peer_id"), MustHaveDef("port"),
       MustHaveDef("uploaded"), MustHaveDef("downloaded"), OptionalDef("left"),
       MustHaveDef("numwant"), MustHaveDef("key"), MustHaveDef("compact"),
       MustHaveDef("supportcrypto"), OptionalDef("requirecrypto"),
       OptionalDef("event"), OptionalDef("corrupt"), OptionalDef("trackerid") >>

\* the definitions with key before numwant
queryDefsKeyBeforeNumwant ==
    << MustHaveDef("info_hash"), MustHaveDef("peer_id"), MustHaveDef("port"),
       MustHaveDef("uploaded"), MustHaveDef("downloaded"), MustHaveDef("left"),
       MustHaveDef("key"), MustHaveDef("numwant"), MustHaveDef("compact"),
       MustHaveDef("supportcrypto"), OptionalDef("requirecrypto"),
       OptionalDef("event"), OptionalDef("corrupt"), OptionalDef("trackerid") >>

queryDefs ==
    << MustHaveDef("info_hash"), MustHaveDef("peer_id"), MustHaveDef("port"),
       MustHaveDef("uploaded"), MustHaveDef("downloaded"), MustHaveDef("left"),
       MustHaveDef("numwant"), MustHaveDef("key"), MustHaveDef("compact"),
       MustHaveDef("supportcrypto"), OptionalDef("requirecrypto"),
       OptionalDef("event"), OptionalDef("corrupt"), OptionalDef("trackerid") >>

\* the end of modifyQuery without the two q.Set of the identity
rewriteQueryKeepsHostIdentity(r, q0, pt) ==
    LET q == Set(q0, "numwant", "80")
        privateTrackerQuery == privateTrackerQueryOf(r.url.rawQuery)
        res == ProcessQuery(queryDefs, q)
    IN IF res.err # "" THEN [err |-> res.err, rawQuery |-> r.url.rawQuery]
       ELSE [err |-> "",
             rawQuery |-> IF privateTrackerQuery # ""
                          THEN privateTrackerQuery \o "&" \o Str(res.params)
                          ELSE Str(res.params)]

\* the end of modifyQuery, from q.Set("peer_id") on, for q0 = r.URL.Query():
\* [err, rawQuery]
rewriteQuery(r, q0, pt) ==
    LET q == Set(Set(Set(q0, "numwant", "80"), "peer_id", pt.peerID), "key", pt.key)
        privateTrackerQuery == privateTrackerQueryOf(r.url.rawQuery)
        res == ProcessQuery(queryDefs, q)
    IN IF res.err # "" THEN [err |-> res.err, rawQuery |-> r.url.rawQuery]
       ELSE [err |-> "",
             rawQuery |-> IF privateTrackerQuery # ""
                          THEN privateTrackerQuery \o "&" \o Str(res.params)
                          ELSE Str(res.params)]

TransmissionHeader ==
    [h \in {"Accept-Encoding", "User-Agent", "Accept"} |->
        CASE h = "Accept-Encoding" -> "deflate, gzip, br, zstd"
          [] h = "User-Agent" -> "Transmission/4.0.6"
          [] h = "Accept" -> "*/*"]

\* the three are set and the other headers stay
modifyHeadersKeepsOthers(r) ==
    [r EXCEPT !.header =
        [h \in DOMAIN r.header \cup DOMAIN TransmissionHeader |->
            IF h \in DOMAIN TransmissionHeader THEN TransmissionHeader[h]
            ELSE r.header[h]]]

\* the headers are replaced and the method is set as well
modifyHeadersAndMethod(r) == [r EXCEPT !.header = TransmissionHeader, !.method = "POST"]

\* modifyHeaders: every header is deleted, then the three are set
modifyHeaders(r) == [r EXCEPT !.header = TransmissionHeader]


(***************************************************************************)
(* The host engine's requests (anacrolix/torrent builds the query with     *)
(* url.Values.Encode, names in alphabetical order, appended to the         *)
(* tracker's own query).  variant names what the request departs from a    *)
(* well-formed announce in.                                                *)
(***************************************************************************)
Opt(cond, frag) == IF cond THEN <<frag>> ELSE <<>>

Reverse(frags) == [i \in 1..Len(frags) |-> frags[Len(frags) + 1 - i]]

\* the fragments of the host engine's query, names in alphabetical order
HostFragments(event, variant) ==
       Opt(variant \notin {"nocompact", "compact0", "compact01"}, "compact=1")
    \o Opt(variant \in {"compact0", "compact01", "compact10"}, "compact=0")
    \o Opt(variant = "compact01", "compact=1")
    \o Opt(variant = "optionals", "corrupt=0")
    \o Opt(variant # "nodownloaded", "downloaded=0")
    \o Opt(event # "", "event=" \o event)
    \o Opt(variant \notin {"noih", "emptyih"}, "info_hash=h1")
    \o Opt(variant = "emptyih", "info_hash=")
    \o <<"key=OLD">>
    \o Opt(variant # "noleft", "left=7")
    \o Opt(variant = "numwant", "numwant=50")
    \o <<"peer_id=OLD">>
    \o Opt(variant # "noport", "port=3456")
    \o Opt(variant = "optionals", "requirecrypto=1")
    \o Opt(variant \notin {"nocrypto", "crypto0"}, "supportcrypto=1")
    \o Opt(variant = "crypto0", "supportcrypto=0")
    \o Opt(variant = "optionals", "trackerid=T7")
    \o Opt(variant # "nouploaded", "uploaded=0")
    \o Opt(variant = "extra", "zextra=9")

\* variant "reversed" is a caller that writes the names in the opposite order
HostQuery(event, variant) ==
    Join(IF variant = "reversed" THEN Reverse(HostFragments(event, variant))
         ELSE HostFragments(event, variant), "&")

HostHeader == [h \in {"User-Agent", "Accept-Encoding"} |->
                 IF h = "User-Agent" THEN "Go-http-client/1.1" ELSE "gzip"]

\* the header sets a request may arrive with: the engine's, none, and the
\* ones of the test
HostHeaders ==
    { HostHeader,
      [h \in {} |-> ""],
      [h \in {"User-Agent", "X-Custom-Header"} |->
          IF h = "User-Agent" THEN "OldAgent/1.0" ELSE "ShouldBeRemoved"] }

MkRequest(host, path, prefix, event, variant) ==
    [method |-> "GET",
     url |-> [scheme |-> "http", host |-> host, path |-> path,
              rawQuery |-> (IF prefix = "" THEN "" ELSE prefix \o "&")
                              \o HostQuery(event, variant)],
     header |-> HostHeader,
     body |-> ""]

Events == {"", "started", "stopped", "completed"}
ValidationVariants ==
    {"numwant", "compact0", "nocompact", "compact01", "crypto0", "nocrypto",
     "noih", "emptyih"}
MissingVariants == {"noport", "nouploaded", "nodownloaded", "noleft"}
PassingVariants == {"ok", "compact10", "extra", "optionals", "reversed"}
\* what a private tracker's announce URL carries before the engine's query
PrivatePrefixes == {"", "auth=123", "passkey=b%20c&auth=1%2f2"}

\* the announces of one tracker goroutine at a time: a tracker with scrape
\* and one without, a scrape request, and announces the rewriter refuses
SeqRequests ==
    {MkRequest("t1", "/announce", "", e, "ok") : e \in Events}
    \cup {MkRequest("t1", "/announce_extra", "", e, "ok") : e \in {"started", "stopped"}}
    \cup {MkRequest("t1", "/announce", "", e, "noport") : e \in {"started", "stopped"}}
    \cup {MkRequest("t1", "/scrape", "", "started", "ok")}
    \cup {MkRequest("t1", "/tracker/scrape", "auth=123", "", "numwant")}
    \cup {MkRequest("t1", "/announce", "", "started", v) :
            v \in {"numwant", "compact0", "crypto0", "noih", "emptyih"}}

\* the announces of one torrent to three trackers, two of them on one host
PairRequests ==
    {MkRequest(t[1], t[2], "", e, "ok") :
        t \in {<<"t1", "/announce">>, <<"t2", "/announce">>, <<"t1", "/b/announce">>},
        e \in {"started", "stopped"}}

\* the announces of concurrent tracker goroutines: one key
ConcRequests ==
    {MkRequest("t1", "/announce", "", e, "ok") : e \in {"", "started", "stopped"}}

\* the announces of one key with and without a private prefix
ScrapeRequests ==
    {MkRequest("t1", "/announce", x, e, "ok") :
        x \in {"", "auth=123"}, e \in {"", "started", "stopped"}}

LimiterRequests ==
    {MkRequest("t1", "/announce", "", e, "ok") : e \in {"started", "stopped"}}

\* every departure from a well-formed announce, for one call
QueryRequests ==
    {MkRequest("t1", p, x, e, v) :
        p \in {"/announce", "/announce_extra"}, x \in PrivatePrefixes,
        e \in Events, v \in PassingVariants \cup ValidationVariants \cup MissingVariants}

AllRequests ==
    SeqRequests \cup ConcRequests \cup QueryRequests \cup PairRequests
        \cup ScrapeRequests

\* r.URL.Query() of the requests of the model, evaluated once for each URL
QueryOf == [u \in {r.url : r \in AllRequests} |-> Query(u)]

\* modifyQuery's infoHash, event and id
infoHashOf(r) == Get(QueryOf[r.url], "info_hash")
eventOf(r) == Get(QueryOf[r.url], "event")
idOf(r) == perTrackerTorrentID(r.url, infoHashOf(r))

Ids == {idOf(r) : r \in {x \in AllRequests : infoHashOf(x) # ""}}

(***************************************************************************)
(* State.                                                                  *)
(***************************************************************************)
VARIABLES
    torrents,       \* mimickTransmission.torrents: id -> *perTorrent
    tasks,          \* mimickTransmission.scheduler's tasks: id -> *scrapeTask
    nextPtr,        \* perTorrent objects created so far
    announces,      \* announces that passed the input validation so far
    pc,             \* where each goroutine is in HttpRequestDirector
    req,            \* the request each goroutine was called with
    out,            \* the request as the call has changed it so far
    err,            \* the error the call returned ("" is nil)
    got,            \* modifyQuery's got (as *perTorrent)
    exists,         \* modifyQuery's exists
    chain,          \* the Directors value and its ChangeHttpRequest call
    runs,           \* the executions of scrapeTask.run the scheduler has begun
    sent,           \* the scrape requests handed to the HTTP client so far
    limiter,        \* mimickTransmission.scrapeRateLimiter
    applied,        \* a function of the packages, its arguments and its result
    \* What the behaviour so far has shown (history, no state of the program):
    pre,            \* torrents and tasks as they were when the call began
    emitted,        \* id -> the <<peer_id, key>> pairs successful non-stopped
                    \*   announces have written
    hist,           \* id -> the last three announces that reached the store
    freshSeen,      \* id -> LoadOrStore calls that returned loaded = false
    schedCalls,     \* id -> calls of scheduleScrape
    stoppedCalled,  \* id -> a stopped announce has been called
    abandoned,      \* the runs whose task a stopped announce that has
                    \*   returned has cancelled
    grants          \* the runs Wait has returned to, with the time of each

program == <<torrents, tasks, nextPtr, announces, pc, req, out, err, got, exists,
            chain, runs, sent, limiter, applied>>
rewriter == <<torrents, tasks, nextPtr, announces, pc, req, out, err, got, exists>>
scraper == <<runs, sent, limiter>>
callHistory == <<pre, emitted, hist, freshSeen, schedCalls, stoppedCalled, abandoned>>
history == <<pre, emitted, hist, freshSeen, schedCalls, stoppedCalled, abandoned,
            grants>>
vars == <<torrents, tasks, nextPtr, announces, pc, req, out, err, got, exists,
          chain, runs, sent, limiter, applied,
          pre, emitted, hist, freshSeen, schedCalls, stoppedCalled, abandoned,
          grants>>

(***************************************************************************)
(* package camouflagetorrentclients: Directors (directors.go).  A director *)
(* is a value of the interface HttpRequestDirector; the model passes       *)
(* AnnounceLog, which logs and returns nil, and directors that write to    *)
(* the request, return an error, or do both.                               *)
(***************************************************************************)
DirectorNames == {"x", "y"}
DirectorKinds == {"log", "rewrite", "refuse", "rewriteRefuse"}
DirectorValues == [name : DirectorNames, kind : DirectorKinds]

\* director.ChangeHttpRequest(req): [err, req]; a director that writes adds
\* a parameter with its name to the raw query
ChangeBy(director, r) ==
    [err |-> IF director.kind \in {"refuse", "rewriteRefuse"}
             THEN "refused by " \o director.name ELSE "",
     req |-> IF director.kind \in {"rewrite", "rewriteRefuse"}
             THEN [r EXCEPT !.url.rawQuery = @ \o "&via=" \o director.name]
             ELSE r]

\* the directors in the opposite order
NewDirectorsReversed(directors) ==
    [i \in 1..Len(directors) |-> directors[Len(directors) + 1 - i]]

\* NewDirectors(directors...): the list the Directors value holds
NewDirectors(directors) == directors

\* the loop body that goes on after an error and keeps the last one
RangeStepKeepsGoing(c) ==
    LET res == ChangeBy(c.directors[c.i], c.req) IN
    [c EXCEPT !.req = res.req,
              !.err = IF res.err # "" THEN res.err ELSE @,
              !.i = @ + 1,
              !.calls = Append(@, [director |-> c.directors[c.i], seen |-> c.req,
                                   err |-> res.err, after |-> res.req])]

\* one pass of the loop of Directors.ChangeHttpRequest: director i is called
\* with req; its error ends the call.  calls is the record of the directors
\* called, with the request each saw and left
RangeStep(c) ==
    LET res == ChangeBy(c.directors[c.i], c.req) IN
    [c EXCEPT !.req = res.req,
              !.err = res.err,
              !.state = IF res.err # "" THEN "returned" ELSE @,
              !.i = @ + 1,
              !.calls = Append(@, [director |-> c.directors[c.i], seen |-> c.req,
                                   err |-> res.err, after |-> res.req])]

NoRequest ==
    [method |-> "", url |-> NoURL, header |-> [h \in {} |-> ""], body |-> ""]
NoPre == [torrents |-> [k \in {} |-> NoPerTorrent], tasks |-> [k \in {} |-> NoTask]]

\* no Directors value yet
NoChain ==
    [state |-> "none", passed |-> <<>>, directors |-> <<>>, i |-> 0,
     orig |-> NoRequest, req |-> NoRequest, err |-> "", calls |-> <<>>]

\* no function applied
NoApplied == [fn |-> "", args |-> <<>>, done |-> FALSE, result |-> <<>>]

\* New(): an empty store and an empty scheduler
\* no call and no run under way
InitIdle ==
    /\ announces = 0
    /\ pc = [p \in Goroutines |-> "idle"]
    /\ req = [p \in Goroutines |-> NoRequest]
    /\ out = [p \in Goroutines |-> NoRequest]
    /\ err = [p \in Goroutines |-> ""]
    /\ got = [p \in Goroutines |-> NoPerTorrent]
    /\ exists = [p \in Goroutines |-> FALSE]
    /\ chain = NoChain
    /\ runs = <<>>
    /\ sent = <<>>
    /\ pre = [p \in Goroutines |-> NoPre]
    /\ emitted = [k \in Ids |-> {}]
    /\ hist = [k \in Ids |-> <<>>]
    /\ freshSeen = [k \in Ids |-> 0]
    /\ schedCalls = [k \in Ids |-> 0]
    /\ stoppedCalled = [k \in Ids |-> FALSE]
    /\ abandoned = {}
    /\ grants = <<>>

InitProgram ==
    /\ torrents = [k \in {} |-> NoPerTorrent]
    /\ tasks = [k \in {} |-> NoTask]
    /\ nextPtr = 0
    /\ limiter = NewLimiter
    /\ InitIdle

Init == InitProgram /\ applied = NoApplied

(***************************************************************************)
(* A rewriter on which the started announces of NumTorrents torrents of    *)
(* one tracker have returned: every torrent has its identity and its       *)
(* scrape task.                                                            *)
(***************************************************************************)
TrackerURL ==
    [scheme |-> "http", host |-> "t1", path |-> "/announce", rawQuery |-> ""]

TorrentHash(n) == "g" \o ToString(n)

TorrentId(n) == perTrackerTorrentID(TrackerURL, TorrentHash(n))

TorrentIds(n) == {TorrentId(k) : k \in 1..n}

TorrentNo(id) == CHOOSE n \in 1..NumTorrents : TorrentId(n) = id

StartedTorrents(n) ==
    [id \in TorrentIds(n) |->
        createPerTorrent(TorrentNo(id), CHOOSE draw \in RandDraws : TRUE)]

StartedTasks(n) ==
    [id \in TorrentIds(n) |->
        newScrapeTask(TrackerURL, TorrentHash(TorrentNo(id)), "")]

LimiterInit ==
    /\ torrents = StartedTorrents(NumTorrents)
    /\ tasks = StartedTasks(NumTorrents)
    /\ nextPtr = NumTorrents
    /\ limiter = NewLimiter
    /\ InitIdle
    /\ applied = NoApplied

\* the same with fewer torrents, later: the scrapes sent so far have left
\* few tokens or none in the bucket
DrainedInit ==
    /\ torrents = StartedTorrents(NumDrainedTorrents)
    /\ tasks = StartedTasks(NumDrainedTorrents)
    /\ nextPtr = NumDrainedTorrents
    /\ \E n \in 0..MaxTokensLeft : limiter = [tokens |-> n, ticks |-> 0]
    /\ InitIdle
    /\ applied = NoApplied

AllIdle == \A p \in Goroutines : pc[p] = "idle"

(***************************************************************************)
(* HttpRequestDirector(r) in goroutine p, from its entry to the call of    *)
(* torrents.LoadOrStore: a scrape request returns nil at once, a request   *)
(* that fails a check of modifyQuery returns the error.                    *)
(***************************************************************************)
Call(p, r, max) ==
    LET verr == validationError(QueryOf[r.url]) IN
    /\ pc[p] = "idle"
    /\ req' = [req EXCEPT ![p] = r]
    /\ out' = [out EXCEPT ![p] = r]
    /\ IF IsScrape(r)
       THEN /\ pc' = [pc EXCEPT ![p] = "done"]
            /\ err' = [err EXCEPT ![p] = ""]
            /\ UNCHANGED announces
       ELSE IF verr # ""
       THEN /\ pc' = [pc EXCEPT ![p] = "done"]
            /\ err' = [err EXCEPT ![p] = verr]
            /\ UNCHANGED announces
       ELSE /\ announces < max
            /\ announces' = announces + 1
            /\ pc' = [pc EXCEPT ![p] = "loadOrStore"]
            /\ UNCHANGED err
    /\ UNCHANGED <<torrents, tasks, nextPtr, got, exists, chain, scraper, applied>>

\* one tracker goroutine, one announce at a time
CallSeq == \E r \in SeqRequests : AllIdle /\ Call(1, r, MaxAnnounces)

\* one tracker goroutine, one announce at a time, while the scheduler runs
\* tasks
CallScrape == \E r \in ScrapeRequests : AllIdle /\ Call(1, r, MaxScrapeAnnounces)

\* one more announce of the tracker while the tasks run
CallLimiter ==
    \E r \in LimiterRequests : AllIdle /\ Call(1, r, MaxLimiterAnnounces)

\* one tracker goroutine, the trackers of one torrent in turn
CallPair == \E r \in PairRequests : AllIdle /\ Call(1, r, MaxAnnounces)

\* any goroutine that is not inside a call
CallConc ==
    \E p \in Goroutines : \E r \in ConcRequests : Call(p, r, MaxRaceAnnounces)

\* a single call on a new rewriter
CallQuery ==
    \E r \in QueryRequests : \E h \in HostHeaders :
        AllIdle /\ announces = 0 /\ Call(1, [r EXCEPT !.header = h], 1)

\* got, exists := s.torrents.LoadOrStore(id, createPerTorrent())
StepLoadOrStore(p) ==
    /\ pc[p] = "loadOrStore"
    /\ \E draw \in RandDraws :
        LET res == LoadOrStore(torrents, idOf(req[p]),
                               createPerTorrent(nextPtr + 1, draw))
        IN /\ torrents' = res.m
           /\ nextPtr' = nextPtr + 1
           /\ got' = [got EXCEPT ![p] = res.actual]
           /\ exists' = [exists EXCEPT ![p] = res.loaded]
           /\ pc' = [pc EXCEPT ![p] =
                        IF eventOf(req[p]) = EventStopped THEN "delete"
                        ELSE IF ~res.loaded THEN "schedule" ELSE "finish"]
    /\ UNCHANGED <<tasks, announces, req, out, err, chain, scraper, applied>>

\* s.torrents.Delete(id) of a stopped announce
StepDelete(p) ==
    /\ pc[p] = "delete"
    /\ torrents' = MapDelete(torrents, idOf(req[p]))
    /\ pc' = [pc EXCEPT ![p] = "del"]
    /\ UNCHANGED <<tasks, nextPtr, announces, req, out, err, got, exists, chain, scraper, applied>>

\* s.scheduler.Del(id) of a stopped announce: the task is cancelled and
\* leaves the scheduler
StepDel(p) ==
    /\ pc[p] = "del"
    /\ tasks' = MapDelete(tasks, idOf(req[p]))
    /\ runs' = Cancel(runs, idOf(req[p]))
    /\ pc' = [pc EXCEPT ![p] = IF ~exists[p] THEN "schedule" ELSE "finish"]
    /\ UNCHANGED <<torrents, nextPtr, announces, req, out, err, got, exists, chain,
                   sent, limiter, applied>>

\* if !exists { s.scheduleScrape(id, newScrapeTask(...)) }
\* a registration that runs the scrape itself before it returns
StepScheduleRunsTask(p) ==
    LET r == req[p]
        task == newScrapeTask(r.url, infoHashOf(r),
                              privateTrackerQueryOf(r.url.rawQuery))
    IN
    /\ pc[p] = "schedule"
    /\ CanTake(limiter)
    /\ limiter' = Take(limiter)
    /\ sent' = Append(sent, ScrapeRequest([task |-> task]))
    /\ tasks' = scheduleScrape(tasks, idOf(r), task)
    /\ pc' = [pc EXCEPT ![p] = "finish"]
    /\ UNCHANGED <<torrents, nextPtr, announces, req, out, err, got, exists,
                   chain, runs, applied>>

StepSchedule(p) ==
    LET r == req[p] IN
    /\ pc[p] = "schedule"
    /\ tasks' = scheduleScrape(tasks, idOf(r),
                    newScrapeTask(r.url, infoHashOf(r),
                                  privateTrackerQueryOf(r.url.rawQuery)))
    /\ pc' = [pc EXCEPT ![p] = "finish"]
    /\ UNCHANGED <<torrents, nextPtr, announces, req, out, err, got, exists, chain, scraper, applied>>

\* a return that replaces the headers before it looks at the error
StepFinishHeadersFirst(p) ==
    LET r == req[p]
        res == rewriteQuery(r, QueryOf[r.url], got[p])
    IN
    /\ pc[p] = "finish"
    /\ err' = [err EXCEPT ![p] = res.err]
    /\ out' = [out EXCEPT ![p] =
                 modifyHeaders(IF res.err # "" THEN r
                               ELSE [r EXCEPT !.url.rawQuery = res.rawQuery])]
    /\ pc' = [pc EXCEPT ![p] = "done"]
    /\ UNCHANGED <<torrents, tasks, nextPtr, announces, req, got, exists, chain,
                   scraper, applied>>

\* the rest of modifyQuery and modifyHeaders: the call returns
StepFinish(p) ==
    LET r == req[p]
        res == rewriteQuery(r, QueryOf[r.url], got[p])
    IN
    /\ pc[p] = "finish"
    /\ err' = [err EXCEPT ![p] = res.err]
    /\ out' = [out EXCEPT ![p] =
                 IF res.err # "" THEN r
                 ELSE modifyHeaders([r EXCEPT !.url.rawQuery = res.rawQuery])]
    /\ pc' = [pc EXCEPT ![p] = "done"]
    /\ UNCHANGED <<torrents, tasks, nextPtr, announces, req, got, exists, chain, scraper, applied>>

\* the host engine is done with the returned request and error
Release(p) ==
    /\ pc[p] = "done"
    /\ pc' = [pc EXCEPT ![p] = "idle"]
    /\ req' = [req EXCEPT ![p] = NoRequest]
    /\ out' = [out EXCEPT ![p] = NoRequest]
    /\ err' = [err EXCEPT ![p] = ""]
    /\ got' = [got EXCEPT ![p] = NoPerTorrent]
    /\ exists' = [exists EXCEPT ![p] = FALSE]
    /\ UNCHANGED <<torrents, tasks, nextPtr, announces, chain, scraper, applied>>

(***************************************************************************)
(* The scheduler and scrapeTask.run: the timer of a scheduled task fires   *)
(* and run begins in a goroutine of its own; run waits for a token, then   *)
(* sends its request.                                                      *)
(***************************************************************************)
TaskFires ==
    \E id \in DOMAIN tasks :
        /\ Len(runs) < MaxRuns
        /\ runs' = BeginRun(runs, id, tasks[id])
        /\ UNCHANGED <<rewriter, chain, sent, limiter, applied>>

\* the timers of all the tasks that have no run yet expire together
RECURSIVE BeginRuns(_, _)
BeginRuns(rs, ids) ==
    IF ids = {} THEN rs
    ELSE LET id == CHOOSE id \in ids : TRUE
         IN BeginRuns(BeginRun(rs, id, tasks[id]), ids \ {id})

TasksFireTogether ==
    LET due == {id \in DOMAIN tasks :
                   \A i \in DOMAIN runs : runs[i].id # id}
    IN /\ due # {}
       /\ runs' = BeginRuns(runs, due)
       /\ UNCHANGED <<rewriter, chain, sent, limiter, applied>>

\* 1/maxScrapesPerSecond of a second passes.  What run does between the
\* return of Wait and httpClient.Do never blocks and takes less than that.
TimePasses ==
    /\ limiter.ticks < MaxTicks
    /\ \A i \in DOMAIN runs : runs[i].pc # "request"
    /\ limiter' = Elapse(limiter)
    /\ UNCHANGED <<rewriter, chain, runs, sent, applied>>

\* Wait returns to run i, which has taken one token
RunWaitReturnsAt(i) ==
    /\ runs[i].pc = "wait"
    /\ CanTake(limiter)
    /\ limiter' = Take(limiter)
    /\ runs' = [runs EXCEPT ![i] = WaitReturns(@)]
    /\ UNCHANGED <<rewriter, chain, sent, applied>>

RunWaitReturns == \E i \in DOMAIN runs : RunWaitReturnsAt(i)

\* run i builds its request and hands it to httpClient.Do, which answers
RunSendsAt(i, outcome) ==
    /\ runs[i].pc = "request"
    /\ sent' = Append(sent, ScrapeRequest(runs[i]))
    /\ runs' = [runs EXCEPT ![i] = EndRun(@, outcome)]
    /\ UNCHANGED <<rewriter, chain, limiter, applied>>

RunSends ==
    \E i \in DOMAIN runs : \E outcome \in DoOutcomes : RunSendsAt(i, outcome)

\* http.NewRequest returns an error: run i returns and nothing is sent
RunRequestFails ==
    \E i \in DOMAIN runs :
        /\ runs[i].pc = "request"
        /\ runs' = [runs EXCEPT ![i] = EndRun(@, "build")]
        /\ UNCHANGED <<rewriter, chain, sent, limiter, applied>>

\* the limiter serves its waiters in the order of their calls of Wait; the
\* runs it has released do not interact and are followed one after the
\* other, and what the tracker answers is of no concern to the limiter
FirstAt(label) ==
    CHOOSE i \in DOMAIN runs :
        /\ runs[i].pc = label
        /\ \A j \in DOMAIN runs : runs[j].pc = label => i <= j

RunWaitReturnsFirst ==
    /\ \E i \in DOMAIN runs : runs[i].pc = "wait"
    /\ \A i \in DOMAIN runs : runs[i].pc # "request"
    /\ RunWaitReturnsAt(FirstAt("wait"))

RunSendsFirst ==
    /\ \E i \in DOMAIN runs : runs[i].pc = "request"
    /\ RunSendsAt(FirstAt("request"), "")

(***************************************************************************)
(* Directors: NewDirectors, and ChangeHttpRequest from its call to its     *)
(* return, one director at a time.                                         *)
(***************************************************************************)
DirectorLists ==
    UNION {[1..n -> DirectorValues] : n \in 0..MaxDirectors}

ChainRequests ==
    {MkRequest("t1", "/announce", x, "started", "ok") : x \in {"", "auth=123"}}

ConstructDirectors ==
    /\ chain.state = "none"
    /\ \E ds \in DirectorLists :
          chain' = [chain EXCEPT !.state = "ready", !.passed = ds,
                                 !.directors = NewDirectors(ds)]
    /\ UNCHANGED <<rewriter, scraper, applied, history>>

ChainCall ==
    /\ chain.state = "ready"
    /\ \E r \in ChainRequests :
          chain' = [chain EXCEPT !.state = "running", !.i = 1, !.orig = r,
                                 !.req = r, !.err = "", !.calls = <<>>]
    /\ UNCHANGED <<rewriter, scraper, applied, history>>

ChainCallDirector ==
    /\ chain.state = "running"
    /\ chain.i <= Len(chain.directors)
    /\ chain' = RangeStep(chain)
    /\ UNCHANGED <<rewriter, scraper, applied, history>>

\* return nil after the last director
ChainReturn ==
    /\ chain.state = "running"
    /\ chain.i > Len(chain.directors)
    /\ chain' = [chain EXCEPT !.state = "returned"]
    /\ UNCHANGED <<rewriter, scraper, applied, history>>

\* the host engine is done with the request; the Directors value stays
ChainRelease ==
    /\ chain.state = "returned"
    /\ chain' = [chain EXCEPT !.state = "ready", !.i = 0, !.orig = NoRequest,
                              !.req = NoRequest, !.err = "", !.calls = <<>>]
    /\ UNCHANGED <<rewriter, scraper, applied, history>>

(***************************************************************************)
(* The functions of the packages that depend on their arguments alone,     *)
(* each applied once to arguments drawn at the start.                      *)
(***************************************************************************)
\* the announce URLs of TestScrapeURL, and paths with elements that
\* path.Clean removes
AnnouncePaths ==
    {"/announce", "/tracker/announce", "/announce_extra", "/", "", "/scrape",
     "/b//announce", "/b/./announce", "/b/../announce", "/announce/"}

AnnounceURLs ==
    {[scheme |-> h[1], host |-> h[2], path |-> p, rawQuery |-> q] :
        h \in {<<"http", "tracker.example.com">>, <<"https", "secure.tracker:8080">>},
        p \in AnnouncePaths, q \in {"", "passkey=xyz"}}

InfoHashes == {"1234567890abcdefghij", "a b&c=d%"}
ScrapePrefixes == {"", "passkey=abc&uid=123"}

ScrapeURLArgs ==
    [u : AnnounceURLs, infoHash : InfoHashes, privateTrackerQuery : ScrapePrefixes]

\* the definitions of TestProcessQuery and a second required one, in lists
\* of at most MaxDefs
DefPool ==
    {MustHaveDef("req"), MustHaveDef("req2"), OptionalDef("opt"),
     FixedDef("fix", "valFix")}

DefLists == UNION {[1..n -> DefPool] : n \in 0..MaxDefs}

\* url.Values over the names of DefPool: a name is absent or has values
InputValues ==
    [req |-> {<<>>, <<"valReq">>, <<"valReq", "second">>},
     req2 |-> {<<>>, <<"valReq2">>},
     opt |-> {<<>>, <<"valOpt">>, <<"valOpt", "again">>},
     fix |-> {<<>>, <<"other">>}]

InputMaps ==
    {[n \in {m \in DOMAIN InputValues : c[m] # <<>>} |-> c[n]] :
        c \in [req : InputValues.req, req2 : InputValues.req2,
               opt : InputValues.opt, fix : InputValues.fix]}

ProcessQueryArgs == [defs : DefLists, q : InputMaps]

\* QueryParams of at most MaxParams pairs, with the names and values of
\* TestQueryParams_Str among them
ParamNames == {"key1", "k ey1", "a&b=c%", ""}
ParamValues == {"value1", "v&l=ue 1%+", ""}
ParamLists == UNION {[1..n -> ParamNames \X ParamValues] : n \in 0..MaxParams}

\* raw query strings of at most MaxFragments fragments, those of
\* TestQueryParamsFromRawQueryStr among them
Fragments ==
    {"key1=value1", "key1=value2", "key1", "", "a=b=c", "c=",
     "k%20ey=v%26l%3Due", "x=%zz"}
FragmentLists == UNION {[1..n -> Fragments] : n \in 0..MaxFragments}

\* what crypto/rand may deliver besides RandDraws: every index of charSet
\* and bytes at the ends of the hex digits
FormatDraws ==
    {[ns |-> [i \in 1..12 |-> v], kb |-> [i \in 1..4 |-> b]] :
        v \in 0..(Len(charSet) - 1), b \in {0, 9, 10, 15, 16, 255}}

\* time in milliseconds: time.Minute, and the registration instants
Minute == 60000

scrapeInterval == 30 * Minute

\* rand.Int64N(n): a number of the half-open interval [0, n)
Int64N(n) == 0..(n - 1)

\* a start delay without the second added to the draw
startDelayDrawOnly(n) == n

\* time.Duration(rand.Int64N(9*1000)+1000) * time.Millisecond, for the
\* draw n
startDelay(n) == n + 1000

\* the tasks.Task scheduleScrape hands to AddWithID at time now
registeredTask(now, n) ==
    [Interval |-> scrapeInterval, StartAfter |-> now + startDelay(n)]

\* the draws and instants followed: both ends of Int64N(9*1000) and values
\* between
JitterDraws == {0, 1, 4500, 8998, 8999}
Nows == {0, 12345}

\* announce URLs and info_hash values the rewriter accepts: it requires of
\* the info_hash that it is not empty, and nothing of the path
KeyPaths == {"/announce", "/announce--x", "/announce--x/announce"}
KeyHashes == {"h1", "y", "x--y", "x/announce--y"}
IdentityKeys ==
    {[u |-> [scheme |-> "http", host |-> "t1", path |-> p, rawQuery |-> ""],
      infoHash |-> h] : p \in KeyPaths, h \in KeyHashes}

Applies(fn, args) == [fn |-> fn, args |-> args, done |-> FALSE, result |-> <<>>]

FuncInit ==
    /\ InitProgram
    /\ \/ \E a \in ScrapeURLArgs : applied = Applies("scrapeURL", a)
       \/ \E a \in ProcessQueryArgs : applied = Applies("ProcessQuery", a)
       \/ \E l \in ParamLists : applied = Applies("Str", [l |-> l])
       \/ \E f \in FragmentLists :
             applied = Applies("QueryParamsFromRawQueryStr",
                               [frags |-> f, s |-> Join(f, "&")])
       \/ \E d \in RandDraws \cup FormatDraws :
             applied = Applies("createPerTorrent", [draw |-> d])
       \/ \E a \in IdentityKeys : \E b \in IdentityKeys :
             applied = Applies("perTrackerTorrentID", [a |-> a, b |-> b])
       \/ \E now \in Nows : \E n \in JitterDraws :
             applied = Applies("scheduleScrape", [now |-> now, n |-> n])

ApplyFn(fn, result) ==
    /\ applied.fn = fn
    /\ ~applied.done
    /\ applied' = [applied EXCEPT !.done = TRUE, !.result = result]
    /\ UNCHANGED <<rewriter, chain, scraper, history>>

\* scrapeURL(announceURL, infoHash, privateTrackerQuery); JoinPath works on
\* a copy, the URL the caller passed is as it was
ApplyScrapeURL ==
    LET a == applied.args IN
    ApplyFn("scrapeURL",
            [scrapeURL |-> scrapeURL(a.u, a.infoHash, a.privateTrackerQuery),
             announceURL |-> a.u])

ApplyProcessQuery ==
    LET a == applied.args IN ApplyFn("ProcessQuery", ProcessQuery(a.defs, a.q))

\* l.Str(), and the string read back as TestQueryParams_Str and
\* TestQueryParamsFromRawQueryStr do
ApplyStr ==
    LET str == Str(applied.args.l) IN
    ApplyFn("Str", [str |-> str, parsed |-> QueryParamsFromRawQueryStr(str)])

ApplyQueryParamsFromRawQueryStr ==
    ApplyFn("QueryParamsFromRawQueryStr", QueryParamsFromRawQueryStr(applied.args.s))

ApplyCreatePerTorrent ==
    ApplyFn("createPerTorrent", createPerTorrent(1, applied.args.draw))

(***************************************************************************)
(* History: what a step of the program adds to the record of the           *)
(* behaviour.  Every step is a step of exactly one goroutine, Mover.       *)
(***************************************************************************)
Mover == CHOOSE p \in Goroutines : pc'[p] # pc[p]

\* the step is the call of a stopped announce that has a key
CallsStopped(p) ==
    /\ pc[p] = "idle"
    /\ ~IsScrape(req'[p]) /\ infoHashOf(req'[p]) # ""
    /\ eventOf(req'[p]) = EventStopped

\* the step is the return of an announce that reached the store
Returns(p) == pc[p] = "finish" /\ pc'[p] = "done"

\* pre: the store and the scheduler as a call finds them, until the host
\* engine is done with the call
PreNext ==
    LET p == Mover IN
    IF pc[p] = "idle"
    THEN [pre EXCEPT ![p] = [torrents |-> torrents, tasks |-> tasks]]
    ELSE IF pc'[p] = "idle" THEN [pre EXCEPT ![p] = NoPre]
    ELSE pre

\* hist: the announce that returns is appended, the last three are kept
HistNext ==
    LET p == Mover
        entry == [event |-> eventOf(req[p]), err |-> err'[p], pt |-> got[p]]
    IN IF Returns(p)
       THEN [hist EXCEPT ![idOf(req[p])] =
                IF Len(@) < 3 THEN Append(@, entry) ELSE Append(Tail(@), entry)]
       ELSE hist

\* the step is the return of nil by a non-stopped announce
Emits(p) == Returns(p) /\ err'[p] = "" /\ eventOf(req[p]) # EventStopped

\* the peer_id and key of the query the call has written
Written(p) ==
    LET q == Query(out'[p].url) IN <<Get(q, "peer_id"), Get(q, "key")>>

\* emitted, between stopped announces: forgotten when a stopped announce is
\* called, extended when a non-stopped announce returns nil
EmittedNext ==
    LET p == Mover IN
    IF CallsStopped(p) THEN [emitted EXCEPT ![idOf(req'[p])] = {}]
    ELSE IF Emits(p) THEN [emitted EXCEPT ![idOf(req[p])] = @ \cup {Written(p)}]
    ELSE emitted

StoppedCalledNext ==
    LET p == Mover IN
    IF CallsStopped(p) THEN [stoppedCalled EXCEPT ![idOf(req'[p])] = TRUE]
    ELSE stoppedCalled

\* the records of a key's announces before any stopped announce is called:
\* they are dropped once one is
BeforeStop(id, record, initial) == IF stoppedCalled'[id] THEN initial ELSE record

FreshSeenNext ==
    LET p == Mover
        id == idOf(req[p])
    IN IF pc[p] = "loadOrStore"
       THEN [freshSeen EXCEPT ![id] =
                BeforeStop(id, IF exists'[p] THEN @ ELSE @ + 1, 0)]
       ELSE [id2 \in Ids |-> BeforeStop(id2, freshSeen[id2], 0)]

SchedCallsNext ==
    LET p == Mover
        id == idOf(req[p])
    IN IF pc[p] = "schedule"
       THEN [schedCalls EXCEPT ![id] = BeforeStop(id, @ + 1, 0)]
       ELSE [id2 \in Ids |-> BeforeStop(id2, schedCalls[id2], 0)]

EmittedFirstNext ==
    LET p == Mover IN
    IF Emits(p)
    THEN [emitted EXCEPT ![idOf(req[p])] =
            BeforeStop(idOf(req[p]), @ \cup {Written(p)}, {})]
    ELSE [id2 \in Ids |-> BeforeStop(id2, emitted[id2], {})]

\* abandoned: when a stopped announce returns, the runs of its key that
\* are cancelled
AbandonedNext ==
    LET p == Mover IN
    IF Returns(p) /\ eventOf(req[p]) = EventStopped
    THEN abandoned \cup {i \in DOMAIN runs :
                            runs[i].id = idOf(req[p]) /\ runs[i].cancelled}
    ELSE abandoned

\* the history the specification with the scheduler keeps
ObserveScrape ==
    /\ abandoned' = AbandonedNext
    /\ UNCHANGED <<pre, emitted, hist, freshSeen, schedCalls, stoppedCalled,
                   grants>>

\* the history the sequential specification keeps
ObserveSeq ==
    /\ pre' = PreNext
    /\ hist' = HistNext
    /\ emitted' = EmittedNext
    /\ UNCHANGED <<freshSeen, schedCalls, stoppedCalled, abandoned, grants>>

\* the history the concurrent specification keeps
ObserveConc ==
    /\ stoppedCalled' = StoppedCalledNext
    /\ freshSeen' = FreshSeenNext
    /\ schedCalls' = SchedCallsNext
    /\ emitted' = EmittedFirstNext
    /\ UNCHANGED <<pre, hist, abandoned, grants>>

NextSeq ==
    \/ CallSeq /\ ObserveSeq
    \/ \E p \in Goroutines :
        \/ StepLoadOrStore(p) /\ ObserveSeq
        \/ StepDelete(p) /\ ObserveSeq
        \/ StepDel(p) /\ ObserveSeq
        \/ StepSchedule(p) /\ ObserveSeq
        \/ StepFinish(p) /\ ObserveSeq
        \/ Release(p) /\ ObserveSeq

Next ==
    \/ CallConc /\ ObserveConc
    \/ \E p \in Goroutines :
        \/ StepLoadOrStore(p) /\ ObserveConc
        \/ StepDelete(p) /\ ObserveConc
        \/ StepDel(p) /\ ObserveConc
        \/ StepSchedule(p) /\ ObserveConc
        \/ StepFinish(p) /\ ObserveConc
        \/ Release(p) /\ ObserveConc

NextPair ==
    \/ CallPair /\ ObserveSeq
    \/ \E p \in Goroutines :
        \/ StepLoadOrStore(p) /\ ObserveSeq
        \/ StepDelete(p) /\ ObserveSeq
        \/ StepDel(p) /\ ObserveSeq
        \/ StepSchedule(p) /\ ObserveSeq
        \/ StepFinish(p) /\ ObserveSeq
        \/ Release(p) /\ ObserveSeq

NextChain ==
    \/ ConstructDirectors
    \/ ChainCall
    \/ ChainCallDirector
    \/ ChainReturn
    \/ ChainRelease

NextQuery ==
    \/ CallQuery /\ UNCHANGED history
    \/ \E p \in Goroutines :
        \/ StepLoadOrStore(p) /\ UNCHANGED history
        \/ StepDelete(p) /\ UNCHANGED history
        \/ StepDel(p) /\ UNCHANGED history
        \/ StepSchedule(p) /\ UNCHANGED history
        \/ StepFinish(p) /\ UNCHANGED history
        \/ Release(p) /\ UNCHANGED history

NextScrape ==
    \/ CallScrape /\ ObserveScrape
    \/ \E p \in Goroutines :
        \/ StepLoadOrStore(p) /\ ObserveScrape
        \/ StepDelete(p) /\ ObserveScrape
        \/ StepDel(p) /\ ObserveScrape
        \/ StepSchedule(p) /\ ObserveScrape
        \/ StepFinish(p) /\ ObserveScrape
        \/ Release(p) /\ ObserveScrape
    \/ TaskFires /\ UNCHANGED history
    \/ RunWaitReturns /\ UNCHANGED history
    \/ RunSends /\ UNCHANGED history
    \/ RunRequestFails /\ UNCHANGED history

\* the time at which Wait returns to a run
GrantsNext == Append(grants, [run |-> FirstAt("wait"), at |-> limiter.ticks])

ObserveLimiter == grants' = GrantsNext /\ UNCHANGED callHistory

NextLimiter ==
    \/ CallLimiter /\ UNCHANGED history
    \/ \E p \in Goroutines :
        \/ StepLoadOrStore(p) /\ UNCHANGED history
        \/ StepDelete(p) /\ UNCHANGED history
        \/ StepDel(p) /\ UNCHANGED history
        \/ StepSchedule(p) /\ UNCHANGED history
        \/ StepFinish(p) /\ UNCHANGED history
        \/ Release(p) /\ UNCHANGED history
    \/ TasksFireTogether /\ UNCHANGED history
    \/ RunWaitReturnsFirst /\ ObserveLimiter
    \/ RunSendsFirst /\ UNCHANGED history
    \/ TimePasses /\ UNCHANGED history

\* a goroutine inside a call of HttpRequestDirector moves on: the call is
\* straight-line code, and the goroutine that runs it is scheduled until the
\* call returns
InCall == {"loadOrStore", "delete", "del", "schedule", "finish"}

DirectorRuns ==
    \E p \in Goroutines :
        /\ pc[p] \in InCall
        /\ \E l \in (InCall \cup {"done"}) \ {pc[p]} : pc' = [pc EXCEPT ![p] = l]

ApplyScheduleScrape ==
    LET a == applied.args IN ApplyFn("scheduleScrape", registeredTask(a.now, a.n))

\* the ids of two announces
ApplyPerTrackerTorrentID ==
    LET a == applied.args.a
        b == applied.args.b
    IN ApplyFn("perTrackerTorrentID",
               [a |-> perTrackerTorrentID(a.u, a.infoHash),
                b |-> perTrackerTorrentID(b.u, b.infoHash)])

NextFunc ==
    \/ ApplyScrapeURL
    \/ ApplyProcessQuery
    \/ ApplyStr
    \/ ApplyQueryParamsFromRawQueryStr
    \/ ApplyCreatePerTorrent
    \/ ApplyScheduleScrape
    \/ ApplyPerTrackerTorrentID

\* announces of one goroutine, one after the other
SeqSpec == Init /\ [][NextSeq]_vars
\* announces of concurrent goroutines on one key
Spec == Init /\ [][Next]_vars
\* one call, of any query
QuerySpec == Init /\ [][NextQuery]_vars
\* announces of one goroutine to several trackers of one torrent
PairSpec == Init /\ [][NextPair]_vars
\* a Directors value and calls of its ChangeHttpRequest
ChainSpec == Init /\ [][NextChain]_vars
\* announces of one goroutine and the runs of the scheduled tasks
ScrapeSpec == Init /\ [][NextScrape]_vars
\* one application of a function to arguments drawn at the start
FuncSpec == FuncInit /\ [][NextFunc]_vars

\* no time needs to pass and no run needs to move: only the goroutine of
\* the call is taken to go on
FairDrainedSpec == DrainedInit /\ [][NextLimiter]_vars /\ WF_pc(DirectorRuns)

LimiterSpec == LimiterInit /\ [][NextLimiter]_vars

TypeOK ==
    /\ DOMAIN torrents \subseteq Ids
    /\ DOMAIN tasks \subseteq Ids
    /\ nextPtr \in 0..announces
    /\ announces \in 0..MaxAnnounces
    /\ pc \in [Goroutines -> {"idle", "loadOrStore", "delete", "del", "schedule",
                              "finish", "done"}]

(***************************************************************************)
(* What the claims speak of, in their own terms.                           *)
(***************************************************************************)
\* the first value of name is not v, or name is absent
FirstIsNot(q, name, v) == ~Has(q, name) \/ q[name][1] # v

\* the input fails the input validation
FailsValidation(q) ==
    \/ Has(q, "numwant")
    \/ FirstIsNot(q, "compact", "1")
    \/ FirstIsNot(q, "supportcrypto", "1")
    \/ ~Has(q, "info_hash") \/ q["info_hash"][1] = ""

\* a parameter the host engine must supply is absent
MissesRequired(q) ==
    \E name \in {"port", "uploaded", "downloaded", "left"} : ~Has(q, name)

\* the sequential goroutine's call has returned from an announce URL
Returned == pc[1] = "done" /\ ~IsScrape(req[1])

\* the keys of the trackers whose announce path ends with "/announce"
ScrapeIds ==
    {idOf(r) : r \in {x \in AllRequests :
                        infoHashOf(x) # "" /\ HasSuffix(x.url.path, "/announce")}}

\* goroutine p is in an announce for key k and has its answer from LoadOrStore
PastLoad(p, k) ==
    /\ pc[p] \in {"schedule", "finish", "done"}
    /\ got[p] # NoPerTorrent
    /\ idOf(req[p]) = k

(***************************************************************************)
(* C1.  Successful announces of one key with no stopped announce between   *)
(* them all carry the peer_id and key of the first of them, whatever their *)
(* events: the rewritten queries written since the last stopped announce   *)
(* of a key hold at most one <<peer_id, key>> pair.  (SeqSpec)             *)
(***************************************************************************)
C1_SameIdentityUntilStopped == \A k \in Ids : Cardinality(emitted[k]) <= 1

\* a started announce and then a completed one have returned nil for a key
C1_Witness ==
    \E k \in Ids :
        /\ pc[1] = "done"
        /\ Cardinality(emitted[k]) = 1
        /\ Len(hist[k]) = 2
        /\ hist[k][1].event = "started" /\ hist[k][1].err = ""
        /\ hist[k][2].event = "completed" /\ hist[k][2].err = ""

(***************************************************************************)
(* C2.  When an announce with event=stopped that passes the input          *)
(* validation has returned, and its key had a stored identity and a        *)
(* scheduled task when it was called, the store has no entry for the key   *)
(* and the scheduler no task with that id.  (SeqSpec)                      *)
(***************************************************************************)
C2_StoppedRemovesBoth ==
    (/\ Returned
     /\ ~FailsValidation(QueryOf[req[1].url])
     /\ eventOf(req[1]) = "stopped"
     /\ idOf(req[1]) \in DOMAIN pre[1].torrents
     /\ idOf(req[1]) \in DOMAIN pre[1].tasks)
    => /\ idOf(req[1]) \notin DOMAIN torrents
       /\ idOf(req[1]) \notin DOMAIN tasks

C2_Witness ==
    /\ Returned
    /\ err[1] = ""
    /\ eventOf(req[1]) = "stopped"
    /\ idOf(req[1]) \in DOMAIN pre[1].torrents
    /\ idOf(req[1]) \in DOMAIN pre[1].tasks
    /\ idOf(req[1]) \notin DOMAIN torrents
    /\ idOf(req[1]) \notin DOMAIN tasks

(***************************************************************************)
(* C3.  A well-formed announce with event=stopped for a key that has no    *)
(* stored identity (and no task) returns nil, and when it has returned the *)
(* store holds no identity for the key and no scrape task is scheduled     *)
(* under the key's id.  (SeqSpec; the code schedules a task.)              *)
(***************************************************************************)
C3_StoppedWithoutIdentity ==
    (/\ Returned
     /\ ~FailsValidation(QueryOf[req[1].url])
     /\ ~MissesRequired(QueryOf[req[1].url])
     /\ eventOf(req[1]) = "stopped"
     /\ idOf(req[1]) \notin DOMAIN pre[1].torrents
     /\ idOf(req[1]) \notin DOMAIN pre[1].tasks)
    => /\ err[1] = ""
       /\ idOf(req[1]) \notin DOMAIN torrents
       /\ idOf(req[1]) \notin DOMAIN tasks

(***************************************************************************)
(* C4.  Whenever no announce is in progress, a scrape task is scheduled    *)
(* under a key's id if and only if an identity is stored under the key.    *)
(* Stated for the keys of the trackers that have a scrape URL (announce    *)
(* path ending with "/announce"); for the other trackers no task is ever   *)
(* registered.  (SeqSpec; the code leaves a task without an identity.)     *)
(***************************************************************************)
C4_TaskIffIdentity ==
    pc[1] \in {"idle", "done"}
    => \A k \in ScrapeIds : k \in DOMAIN tasks <=> k \in DOMAIN torrents

(***************************************************************************)
(* C5.  As claimed, for every tracker: when announce(started),             *)
(* announce(stopped), announce(started) have returned nil in this order    *)
(* for a key, the third carries an identity object that neither of the     *)
(* first two carried, that identity is the one stored under the key, and a *)
(* scrape task is scheduled under the key's id.  (SeqSpec; no task is      *)
(* scheduled for a tracker without scrape URL.)                            *)
(***************************************************************************)
Restarted(k) ==
    /\ Returned
    /\ idOf(req[1]) = k
    /\ Len(hist[k]) = 3
    /\ \A i \in 1..3 : hist[k][i].err = ""
    /\ hist[k][1].event = "started"
    /\ hist[k][2].event = "stopped"
    /\ hist[k][3].event = "started"

FreshIdentityStored(k) ==
    /\ hist[k][3].pt.ptr \notin {hist[k][1].pt.ptr, hist[k][2].pt.ptr}
    /\ k \in DOMAIN torrents
    /\ torrents[k] = hist[k][3].pt

C5_RestartAnyTracker ==
    \A k \in Ids : Restarted(k) => FreshIdentityStored(k) /\ k \in DOMAIN tasks

(***************************************************************************)
(* C5, amended.  When announce(started), announce(stopped),                *)
(* announce(started) have returned nil in this order for a key, the third  *)
(* carries an identity object that neither of the first two carried, that  *)
(* identity is the one stored under the key, and, if the tracker's         *)
(* announce path ends with "/announce", a scrape task is scheduled under   *)
(* the key's id.  (SeqSpec)                                                *)
(***************************************************************************)
C5_Restart ==
    \A k \in Ids :
        Restarted(k) => /\ FreshIdentityStored(k)
                        /\ (k \in ScrapeIds => k \in DOMAIN tasks)

C5_Witness ==
    \E k \in ScrapeIds : Restarted(k) /\ FreshIdentityStored(k) /\ k \in DOMAIN tasks

(***************************************************************************)
(* C6.  Among the announces of a key for which no stopped announce has     *)
(* been called, running concurrently from a state without identity for the *)
(* key: exactly one observes exists = false, scheduleScrape is called by   *)
(* that one and only once, and all carry the same identity, so that the    *)
(* queries written hold one <<peer_id, key>> pair.  (Spec)                 *)
(***************************************************************************)
C6_OneFreshObserver ==
    \A k \in Ids :
        ~stoppedCalled[k] =>
            /\ freshSeen[k] <= 1
            /\ schedCalls[k] <= freshSeen[k]
            /\ Cardinality(emitted[k]) <= 1
            /\ Cardinality({p \in Goroutines : PastLoad(p, k) /\ ~exists[p]}) <= 1
            /\ \A p \in Goroutines :
                PastLoad(p, k) =>
                    /\ freshSeen[k] = 1
                    /\ k \in DOMAIN torrents /\ got[p] = torrents[k]
                    /\ pc[p] = "schedule" => ~exists[p] /\ schedCalls[k] = 0
                    /\ (pc[p] \in {"finish", "done"} /\ ~exists[p]) => schedCalls[k] = 1
                    /\ pc[p] = "done" => err[p] = "" /\ emitted[k] # {}
            /\ (k \in DOMAIN torrents
                    /\ \A p \in Goroutines : ~(PastLoad(p, k) /\ pc[p] = "schedule"))
                => schedCalls[k] = 1

\* a second announce has loaded the identity and returned before the first,
\* which stored it, has registered the task
C6_Witness ==
    \E k \in Ids : \E p, q \in Goroutines :
        /\ ~stoppedCalled[k]
        /\ PastLoad(p, k) /\ pc[p] = "schedule" /\ ~exists[p]
        /\ PastLoad(q, k) /\ pc[q] = "done" /\ exists[q] /\ err[q] = ""
        /\ got[p] = got[q]

(***************************************************************************)
(* C7.  Identity insertion with task registration, and identity deletion   *)
(* with task cancellation, are one atomic step each: when a stopped        *)
(* announce that found the identity and a non-stopped announce that        *)
(* created it, the only two announces so far, have both returned, a task   *)
(* is scheduled under the key's id exactly when an identity is stored      *)
(* under the key.  (Spec; the code's steps interleave.)                    *)
(***************************************************************************)
C7_StopRacingAnnounce ==
    \A k \in ScrapeIds : \A p, q \in Goroutines :
        (/\ announces = 2
         /\ PastLoad(p, k) /\ pc[p] = "done"
         /\ PastLoad(q, k) /\ pc[q] = "done"
         /\ eventOf(req[p]) = "stopped" /\ exists[p]
         /\ eventOf(req[q]) # "stopped" /\ ~exists[q])
        => (k \in DOMAIN tasks <=> k \in DOMAIN torrents)

(***************************************************************************)
(* C8.  Whenever the call has returned an error for an announce, the       *)
(* store's key set has gained nothing compared with before the call.       *)
(* (SeqSpec; the code stores the identity before it looks for port,        *)
(* uploaded, downloaded and left.)                                         *)
(***************************************************************************)
C8_FailedStoresNothing ==
    (Returned /\ err[1] # "") => DOMAIN torrents \subseteq DOMAIN pre[1].torrents

(***************************************************************************)
(* C9.  An announce that fails the input validation (numwant present,      *)
(* compact not 1, supportcrypto not 1, info_hash missing or empty) returns *)
(* an error and leaves the identity store and the scheduler exactly as     *)
(* they were.  (SeqSpec)                                                   *)
(***************************************************************************)
C9_ValidationFailureChangesNothing ==
    (Returned /\ FailsValidation(QueryOf[req[1].url]))
    => /\ err[1] # ""
       /\ torrents = pre[1].torrents
       /\ tasks = pre[1].tasks

\* compact=0 has been refused while an identity and a task were there
C9_Witness ==
    /\ Returned
    /\ Get(QueryOf[req[1].url], "compact") = "0"
    /\ err[1] # ""
    /\ DOMAIN pre[1].torrents # {}
    /\ DOMAIN pre[1].tasks # {}
    /\ torrents = pre[1].torrents
    /\ tasks = pre[1].tasks

(***************************************************************************)
(* C10.  The call on an announce URL returns an error if and only if, in   *)
(* the parsed input query, numwant is present, or the first compact value  *)
(* is not "1" or compact is absent, or the same for supportcrypto, or      *)
(* info_hash is absent or empty, or one of port, uploaded, downloaded,     *)
(* left is absent.  (QuerySpec)                                            *)
(***************************************************************************)
C10_ErrorIffDefective ==
    Returned =>
        (err[1] # "" <=> \/ FailsValidation(QueryOf[req[1].url])
                         \/ MissesRequired(QueryOf[req[1].url]))

\* only left is missing, and the call has returned an error
C10_Witness ==
    /\ Returned
    /\ err[1] # ""
    /\ ~FailsValidation(QueryOf[req[1].url])
    /\ \A name \in {"port", "uploaded", "downloaded"} : Has(QueryOf[req[1].url], name)
    /\ ~Has(QueryOf[req[1].url], "left")

(***************************************************************************)
(* The rewritten query, as one reads it off the request.                   *)
(***************************************************************************)
\* the positions (0-based) of "&compact" in raw
MarkerAt(raw) ==
    {i \in 0..(Len(raw) - 8) : SubSeq(raw, i + 1, i + 8) = "&compact"}

\* what stands in raw before its first "&compact", "" when it has none
MarkerPrefix(raw) ==
    IF MarkerAt(raw) = {} THEN ""
    ELSE SubSeq(raw, 1, CHOOSE i \in MarkerAt(raw) : \A j \in MarkerAt(raw) : i <= j)

\* the new raw query without the private prefix and the '&' after it
SerializedPart(p) ==
    LET pfx == MarkerPrefix(req[p].url.rawQuery)
        raw == out[p].url.rawQuery
    IN IF pfx = "" THEN raw ELSE SubSeq(raw, Len(pfx) + 2, Len(raw))

\* the parameters of the serialized part, and their names
SerializedParams(p) == QueryParamsFromRawQueryStr(SerializedPart(p))
NamesOf(params) == [i \in 1..Len(params) |-> params[i][1]]

\* the value of the one parameter called name, "" when there is none
ValueOf(params, name) ==
    IF \E i \in 1..Len(params) : params[i][1] = name
    THEN params[CHOOSE i \in 1..Len(params) : params[i][1] = name][2]
    ELSE ""

TransmissionNames ==
    <<"info_hash", "peer_id", "port", "uploaded", "downloaded", "left",
      "numwant", "key", "compact", "supportcrypto">>
OptionalNames == <<"requirecrypto", "event", "corrupt", "trackerid">>

\* the optional names the input query has, in the declared order
PresentOptionals(q) ==
    LET present(name) == name \in DOMAIN q IN SelectSeq(OptionalNames, present)

\* the call of the sequential goroutine has rewritten an announce
Rewritten == Returned /\ err[1] = ""

(***************************************************************************)
(* C11.  For every announce rewritten successfully, the parameter names of *)
(* the serialized part of the new raw query (what follows the private      *)
(* prefix) are info_hash, peer_id, port, uploaded, downloaded, left,       *)
(* numwant, key, compact, supportcrypto and then those of requirecrypto,   *)
(* event, corrupt, trackerid that the input had, in this order and nothing *)
(* else, whatever the order and the extra parameters of the input.         *)
(* (QuerySpec)                                                             *)
(***************************************************************************)
C11_NamesInOrder ==
    Rewritten =>
        /\ SerializedParams(1).ok
        /\ NamesOf(SerializedParams(1).params)
              = TransmissionNames \o PresentOptionals(QueryOf[req[1].url])

\* an input with the names in the opposite order and an event
C11_Witness ==
    /\ Rewritten
    /\ HasPrefix(req[1].url.rawQuery, "uploaded=0&")
    /\ HasSuffix(req[1].url.rawQuery, "&compact=1")
    /\ Len(SerializedParams(1).params) = 11
    /\ SerializedParams(1).params[11][1] = "event"

(***************************************************************************)
(* C12.  The private prefix is the exact substring of the input raw query  *)
(* before its first "&compact" (empty without the marker), and the new raw *)
(* query is prefix, "&", serialized when the prefix is not empty, and      *)
(* serialized alone otherwise, serialized being the parameters in the      *)
(* canonical encoding: the prefix stands unchanged, not re-encoded and not *)
(* reordered, before every Transmission parameter.  (QuerySpec)            *)
(***************************************************************************)
C12_PrefixVerbatim ==
    Rewritten =>
        LET raw == req[1].url.rawQuery
            new == out[1].url.rawQuery
            ser == Str(SerializedParams(1).params)
        IN /\ SerializedParams(1).ok
           /\ HasPrefix(SerializedPart(1), "info_hash=")
           /\ IF MarkerAt(raw) = {}
              THEN new = ser
              ELSE \E i \in MarkerAt(raw) :
                      /\ \A j \in MarkerAt(raw) : i <= j
                      /\ IF i = 0 THEN new = ser
                         ELSE new = SubSeq(raw, 1, i) \o "&" \o ser

\* a prefix of two parameters, not in alphabetical order and with lower-case
\* escapes, stands at the head of the new query
C12_Witness ==
    /\ Rewritten
    /\ HasPrefix(req[1].url.rawQuery, "passkey=b%20c&auth=1%2f2&compact=1&")
    /\ HasPrefix(out[1].url.rawQuery, "passkey=b%20c&auth=1%2f2&info_hash=h1&peer_id=-TR4060-")

\* every parameter of the new raw query, prefix included
OutputParams(p) == QueryParamsFromRawQueryStr(out[p].url.rawQuery)

\* the fixed values and the identity in the serialized part
CarriesOverrides ==
    LET params == SerializedParams(1).params
        id == idOf(req[1])
    IN /\ SerializedParams(1).ok
       /\ ValueOf(params, "numwant") = "80"
       /\ ValueOf(params, "compact") = "1"
       /\ ValueOf(params, "supportcrypto") = "1"
       /\ ValueOf(params, "peer_id") = got[1].peerID
       /\ ValueOf(params, "key") = got[1].key
       /\ HasPrefix(got[1].peerID, "-TR4060-")
       /\ eventOf(req[1]) # "stopped" => id \in DOMAIN torrents /\ torrents[id] = got[1]

\* parameter i of the new raw query is the engine's own peer_id or key
IsHostIdentity(i) ==
    LET param == OutputParams(1).params[i]
        q == QueryOf[req[1].url]
    IN /\ param[1] \in {"peer_id", "key"}
       /\ param[1] \in DOMAIN q
       /\ \E j \in 1..Len(q[param[1]]) : q[param[1]][j] = param[2]

(***************************************************************************)
(* C13, as claimed.  In every successfully rewritten announce numwant is   *)
(* 80, compact 1, supportcrypto 1, peer_id and key are those of the        *)
(* identity stored or just created for the request's key, and the peer_id  *)
(* and key of the host engine appear nowhere in the output.  (QuerySpec;   *)
(* they appear when they stand before "&compact" in the input.)            *)
(***************************************************************************)
C13_NoHostIdentityAnywhere ==
    Rewritten =>
        /\ CarriesOverrides
        /\ OutputParams(1).ok
        /\ \A i \in 1..Len(OutputParams(1).params) : ~IsHostIdentity(i)

(***************************************************************************)
(* C13, amended.  In every successfully rewritten announce the serialized  *)
(* part has numwant 80, compact 1, supportcrypto 1 and the peer_id and key *)
(* of the identity stored or just created for the request's key; the       *)
(* peer_id and key of the host engine appear in the output only as part of *)
(* the private prefix, that is when they stand before the first "&compact" *)
(* of the input raw query.  (QuerySpec)                                    *)
(***************************************************************************)
C13_Overrides ==
    Rewritten =>
        LET pfx == QueryParamsFromRawQueryStr(MarkerPrefix(req[1].url.rawQuery)) IN
        /\ CarriesOverrides
        /\ OutputParams(1).ok /\ pfx.ok
        /\ \A i \in 1..Len(OutputParams(1).params) :
              IsHostIdentity(i) =>
                  i <= Len(pfx.params) /\ pfx.params[i] = OutputParams(1).params[i]

\* the engine's query follows a private prefix: its peer_id and key are gone
C13_Witness ==
    /\ Rewritten
    /\ CarriesOverrides
    /\ MarkerPrefix(req[1].url.rawQuery) = "auth=123"
    /\ Get(QueryOf[req[1].url], "peer_id") = "OLD"
    /\ \A i \in 1..Len(OutputParams(1).params) : ~IsHostIdentity(i)

(***************************************************************************)
(* C14.  After a successful announce rewrite the request has exactly the   *)
(* headers User-Agent: Transmission/4.0.6, Accept-Encoding: deflate, gzip, *)
(* br, zstd and Accept: * / *, whatever headers it arrived with.           *)
(* (QuerySpec)                                                             *)
(***************************************************************************)
C14_ThreeHeaders ==
    Rewritten =>
        /\ DOMAIN out[1].header = {"User-Agent", "Accept-Encoding", "Accept"}
        /\ out[1].header["User-Agent"] = "Transmission/4.0.6"
        /\ out[1].header["Accept-Encoding"] = "deflate, gzip, br, zstd"
        /\ out[1].header["Accept"] = "*/*"

\* the request arrived with a header of its own
C14_Witness ==
    /\ Rewritten
    /\ "X-Custom-Header" \in DOMAIN req[1].header
    /\ req[1].header["User-Agent"] = "OldAgent/1.0"
    /\ Cardinality(DOMAIN out[1].header) = 3
    /\ "X-Custom-Header" \notin DOMAIN out[1].header

\* the last '/'-separated segment of the path is "scrape"
LastSegmentIsScrape(path) == path = "scrape" \/ HasSuffix(path, "/scrape")

(***************************************************************************)
(* C15.  When the last segment of the request path is "scrape", the call   *)
(* returns nil and leaves the URL with its query, the headers, the         *)
(* identity store and the scheduler as they were, whatever the query       *)
(* contains.  (SeqSpec)                                                    *)
(***************************************************************************)
C15_ScrapeUntouched ==
    (pc[1] = "done" /\ LastSegmentIsScrape(req[1].url.path))
    => /\ err[1] = ""
       /\ out[1] = req[1]
       /\ torrents = pre[1].torrents
       /\ tasks = pre[1].tasks

\* a scrape request with numwant, while identities and tasks are there
C15_Witness ==
    /\ pc[1] = "done"
    /\ req[1].url.path = "/tracker/scrape"
    /\ Has(QueryOf[req[1].url], "numwant")
    /\ out[1] = req[1]
    /\ DOMAIN torrents # {} /\ torrents = pre[1].torrents
    /\ DOMAIN tasks # {} /\ tasks = pre[1].tasks

(***************************************************************************)
(* C16.  An announce with event=stopped for a key that has a stored        *)
(* identity is rewritten and returns nil, and the peer_id and key it       *)
(* carries are those of the identity that was stored when it was called,   *)
(* the one being removed, not a new one.  (SeqSpec)                        *)
(***************************************************************************)
C16_StoppedCarriesStored ==
    (/\ Returned
     /\ ~FailsValidation(QueryOf[req[1].url])
     /\ ~MissesRequired(QueryOf[req[1].url])
     /\ eventOf(req[1]) = "stopped"
     /\ idOf(req[1]) \in DOMAIN pre[1].torrents)
    => LET stored == pre[1].torrents[idOf(req[1])] IN
       /\ err[1] = ""
       /\ got[1] = stored
       /\ SerializedParams(1).ok
       /\ ValueOf(SerializedParams(1).params, "peer_id") = stored.peerID
       /\ ValueOf(SerializedParams(1).params, "key") = stored.key
       /\ ValueOf(SerializedParams(1).params, "event") = "stopped"

C16_Witness ==
    /\ Rewritten
    /\ eventOf(req[1]) = "stopped"
    /\ idOf(req[1]) \in DOMAIN pre[1].torrents
    /\ idOf(req[1]) \notin DOMAIN torrents
    /\ ValueOf(SerializedParams(1).params, "peer_id")
          = pre[1].torrents[idOf(req[1])].peerID
    /\ ValueOf(SerializedParams(1).params, "key") = pre[1].torrents[idOf(req[1])].key

\* the key of a request as the store spells it: announce base URL, "--",
\* info_hash
KeyOf(r) ==
    r.url.scheme \o "://" \o r.url.host \o r.url.path \o "--"
        \o QueryOf[r.url]["info_hash"][1]

\* the entries of a map other than the one of key k are the same in a and b
SameExcept(a, b, k) ==
    \A j \in (DOMAIN a \cup DOMAIN b) \ {k} :
        j \in DOMAIN a /\ j \in DOMAIN b /\ a[j] = b[j]

(***************************************************************************)
(* C17.  Announces to different announce base URLs with the same info_hash *)
(* have separate store entries and separately scheduled tasks: a           *)
(* successful announce that is not a stopped one has its identity stored   *)
(* under its own key, an identity object no other key holds, and a task of *)
(* its own tracker's scrape URL; and an announce, a stopped one included,  *)
(* at no point changes the identity or the task of another key.            *)
(* (PairSpec)                                                              *)
(***************************************************************************)
C17_SeparateKeys ==
    pc[1] # "idle" =>
        LET k == KeyOf(req[1]) IN
        /\ SameExcept(pre[1].torrents, torrents, k)
        /\ SameExcept(pre[1].tasks, tasks, k)
        /\ (Rewritten /\ eventOf(req[1]) # "stopped") =>
              /\ k \in DOMAIN torrents /\ torrents[k] = got[1]
              /\ \A j \in DOMAIN torrents \ {k} : torrents[j].ptr # got[1].ptr
              /\ k \in DOMAIN tasks
              /\ tasks[k].scrapeURL.host = req[1].url.host
              /\ tasks[k].scrapeURL.path
                    = SubSeq(req[1].url.path, 1, Len(req[1].url.path) - 9) \o "/scrape"

\* a stopped announce to one of two trackers has removed its entry and its
\* task; those of the other tracker are as they were
C17_Witness ==
    /\ Rewritten
    /\ eventOf(req[1]) = "stopped"
    /\ KeyOf(req[1]) \in DOMAIN pre[1].torrents /\ KeyOf(req[1]) \in DOMAIN pre[1].tasks
    /\ KeyOf(req[1]) \notin DOMAIN torrents /\ KeyOf(req[1]) \notin DOMAIN tasks
    /\ Cardinality(DOMAIN torrents) = 1
    /\ DOMAIN tasks = DOMAIN torrents
    /\ SameExcept(pre[1].torrents, torrents, KeyOf(req[1]))
    /\ SameExcept(pre[1].tasks, tasks, KeyOf(req[1]))

(***************************************************************************)
(* C18.  The call never changes the request's method, scheme, host, path   *)
(* or body: at every point of every call, one that fails included, only    *)
(* the raw query and the headers may differ from the request as it was     *)
(* passed in.  (QuerySpec)                                                 *)
(***************************************************************************)
C18_OnlyQueryAndHeaders ==
    \A p \in Goroutines :
        pc[p] # "idle" =>
            /\ out[p].method = req[p].method
            /\ out[p].url.scheme = req[p].url.scheme
            /\ out[p].url.host = req[p].url.host
            /\ out[p].url.path = req[p].url.path
            /\ out[p].body = req[p].body
            /\ err[p] # "" => out[p] = req[p]

\* the raw query and the headers have changed
C18_Witness ==
    /\ Rewritten
    /\ out[1].url.rawQuery # req[1].url.rawQuery
    /\ out[1].header # req[1].header
    /\ out[1].method = "GET"
    /\ out[1].url.path = "/announce_extra"
    /\ out[1].url.host = "t1"

\* the directors called so far are the first ones of the list, in its order
CalledInOrder ==
    /\ Len(chain.calls) <= Len(chain.passed)
    /\ \A j \in 1..Len(chain.calls) : chain.calls[j].director = chain.passed[j]

(***************************************************************************)
(* C19.  Directors.ChangeHttpRequest returns the error of the first        *)
(* director, in list order, that fails, and calls no director after that   *)
(* one; when none fails, the empty list included, it returns nil after     *)
(* calling every director exactly once.  (ChainSpec)                       *)
(***************************************************************************)
C19_FirstErrorEndsChain ==
    chain.state = "returned" =>
        LET n == Len(chain.calls) IN
        /\ CalledInOrder
        /\ \A j \in 1..(n - 1) : chain.calls[j].err = ""
        /\ IF \E j \in 1..Len(chain.passed) :
                  chain.passed[j].kind \in {"refuse", "rewriteRefuse"}
           THEN /\ n >= 1
                /\ chain.passed[n].kind \in {"refuse", "rewriteRefuse"}
                /\ \A j \in 1..(n - 1) :
                      chain.passed[j].kind \notin {"refuse", "rewriteRefuse"}
                /\ chain.err # ""
                /\ chain.err = chain.calls[n].err
           ELSE /\ n = Len(chain.passed)
                /\ chain.err = ""

\* the second of three directors has failed, the third would have failed too
C19_Witness ==
    /\ chain.state = "returned"
    /\ Len(chain.passed) = 3
    /\ chain.passed[1].kind = "rewrite"
    /\ chain.passed[2] = [name |-> "x", kind |-> "refuse"]
    /\ chain.passed[3] = [name |-> "y", kind |-> "refuse"]
    /\ Len(chain.calls) = 2
    /\ chain.err = "refused by x"

\* what the first n directors of the list write, one after the other
RECURSIVE WrittenBy(_, _)
WrittenBy(directors, n) ==
    IF n = 0 THEN ""
    ELSE WrittenBy(directors, n - 1)
            \o (IF directors[n].kind \in {"rewrite", "rewriteRefuse"}
                THEN "&via=" \o directors[n].name ELSE "")

(***************************************************************************)
(* C20.  Directors.ChangeHttpRequest calls the directors in the order they *)
(* were passed to NewDirectors, each one sees the request as all the       *)
(* earlier ones have left it, and when a later director fails what the     *)
(* earlier ones have written stays on the request.  (ChainSpec)            *)
(***************************************************************************)
C20_InOrderNoRollback ==
    chain.state \in {"running", "returned"} =>
        LET n == Len(chain.calls) IN
        /\ CalledInOrder
        /\ \A j \in 1..n :
              /\ chain.calls[j].seen =
                    IF j = 1 THEN chain.orig ELSE chain.calls[j - 1].after
              /\ chain.calls[j].seen.url.rawQuery
                    = chain.orig.url.rawQuery \o WrittenBy(chain.passed, j - 1)
        /\ chain.req = IF n = 0 THEN chain.orig ELSE chain.calls[n].after
        /\ chain.req.url.rawQuery = chain.orig.url.rawQuery \o WrittenBy(chain.passed, n)

\* the third director has failed after two others had written
C20_Witness ==
    /\ chain.state = "returned"
    /\ chain.err # ""
    /\ Len(chain.calls) = 3
    /\ chain.passed[1] = [name |-> "x", kind |-> "rewrite"]
    /\ chain.passed[2] = [name |-> "y", kind |-> "rewrite"]
    /\ chain.passed[3].kind = "refuse"
    /\ chain.calls[3].seen.url.rawQuery = chain.orig.url.rawQuery \o "&via=x&via=y"
    /\ chain.req.url.rawQuery = chain.orig.url.rawQuery \o "&via=x&via=y"

\* scrapeURL has been applied
ScrapeURLApplied == applied.fn = "scrapeURL" /\ applied.done

\* path with its final "/announce" replaced by "/scrape"
AnnounceReplaced(path) ==
    SubSeq(path, 1, Len(path) - Len("/announce")) \o "/scrape"

(***************************************************************************)
(* C21.  scrapeURL returns nil exactly when the path of the announce URL   *)
(* does not end with "/announce"; otherwise it returns a URL with the      *)
(* scheme and host of the announce URL whose path is the announce path     *)
(* with the final "/announce" replaced by "/scrape", and the announce URL  *)
(* is as it was.  (FuncSpec)                                               *)
(***************************************************************************)
C21_ScrapePath ==
    ScrapeURLApplied =>
        LET u == applied.args.u
            su == applied.result.scrapeURL
        IN /\ (su = NoURL) <=> ~HasSuffix(u.path, "/announce")
           /\ su # NoURL =>
                 /\ su.scheme = u.scheme
                 /\ su.host = u.host
                 /\ su.path = AnnounceReplaced(u.path)
           /\ applied.result.announceURL = u

(***************************************************************************)
(* C22.  The raw query of the URL scrapeURL builds is "info_hash=" and the *)
(* query-escaped info_hash when the private prefix is empty, and the       *)
(* prefix, "&" and the same otherwise; it holds nothing of the query of    *)
(* the announce URL.  (FuncSpec)                                           *)
(***************************************************************************)
C22_ScrapeQuery ==
    ScrapeURLApplied /\ applied.result.scrapeURL # NoURL =>
        LET a == applied.args
            raw == applied.result.scrapeURL.rawQuery
            own == "info_hash=" \o QueryEscape(a.infoHash)
            n == Len(raw) - Len(own)
        IN /\ raw = IF a.privateTrackerQuery = "" THEN own
                    ELSE a.privateTrackerQuery \o "&" \o own
           /\ QueryParamsFromRawQueryStr(SubSeq(raw, n + 1, Len(raw))).params
                 = <<(<<"info_hash", a.infoHash>>)>>

\* an announce URL with a query of its own, a private prefix and an
\* info_hash with bytes that are escaped
C22_Witness ==
    /\ ScrapeURLApplied
    /\ applied.args.u.rawQuery = "passkey=xyz"
    /\ applied.args.infoHash = "a b&c=d%"
    /\ applied.result.scrapeURL.path = "/tracker/scrape"
    /\ applied.result.scrapeURL.rawQuery
          = "passkey=abc&uid=123&info_hash=a+b%26c%3Dd%25"

\* ProcessQuery has been applied
ProcessQueryApplied == applied.fn = "ProcessQuery" /\ applied.done

\* the places of the Required rules whose name the input lacks
MissingRequired(defs, q) ==
    {i \in 1..Len(defs) : defs[i].kind = "mustHave" /\ defs[i].name \notin DOMAIN q}

\* the places of the rules that give a parameter, in declaration order
EmittingRules(defs, q) ==
    LET gives(i) == defs[i].kind # "optional" \/ defs[i].name \in DOMAIN q
    IN SelectSeq([i \in 1..Len(defs) |-> i], gives)

(***************************************************************************)
(* C23.  ProcessQuery walks the rules in declaration order.  When the      *)
(* input has the name of every Required rule it returns no error and one   *)
(* parameter for each Required rule (the first value of the input), each   *)
(* Optional rule whose name the input has (its first value) and each Fixed *)
(* rule (its constant, whatever the input holds), in the order of the      *)
(* rules.  Otherwise it returns the error of the first Required rule whose *)
(* name is absent, and no parameters.  (FuncSpec)                          *)
(***************************************************************************)
C23_ProcessQueryRules ==
    ProcessQueryApplied =>
        LET defs == applied.args.defs
            q == applied.args.q
            res == applied.result
            missing == MissingRequired(defs, q)
            rules == EmittingRules(defs, q)
        IN IF missing # {}
           THEN LET first == CHOOSE i \in missing : \A j \in missing : i <= j
                IN /\ res.err = "query " \o defs[first].name \o " not found"
                   /\ res.params = <<>>
           ELSE /\ res.err = ""
                /\ Len(res.params) = Len(rules)
                /\ \A j \in 1..Len(rules) :
                      LET d == defs[rules[j]] IN
                      res.params[j] =
                         <<d.name, IF d.kind = "fixed" THEN d.value ELSE q[d.name][1]>>

\* the rules of TestProcessQuery on an input with two values of req and a
\* value of fix
C23_Witness ==
    /\ ProcessQueryApplied
    /\ applied.args.defs
          = <<MustHaveDef("req"), OptionalDef("opt"), FixedDef("fix", "valFix")>>
    /\ DOMAIN applied.args.q = {"req", "opt", "fix"}
    /\ applied.args.q["req"] = <<"valReq", "second">>
    /\ applied.args.q["fix"] = <<"other">>
    /\ applied.result
          = [err |-> "",
             params |-> <<(<<"req", "valReq">>), (<<"opt", "valOpt">>),
                          (<<"fix", "valFix">>)>>]

\* Str has been applied and its result parsed
StrApplied == applied.fn = "Str" /\ applied.done

(***************************************************************************)
(* C24.  For every sequence s of (name, value) pairs, with names and       *)
(* values that hold space, '&', '=', '%' and '+', with empty ones and with *)
(* a name more than once, and for the empty sequence,                      *)
(* QueryParamsFromRawQueryStr(s.Str()) succeeds and returns s.  (FuncSpec) *)
(***************************************************************************)
C24_RoundTrip ==
    StrApplied =>
        /\ applied.result.parsed.ok
        /\ applied.result.parsed.params = applied.args.l

\* the pair of TestQueryParams_Str twice: the string is as the test has it
C24_Witness ==
    /\ StrApplied
    /\ applied.args.l = <<(<<"k ey1", "v&l=ue 1%+">>), (<<"k ey1", "">>)>>
    /\ applied.result.str = "k+ey1=v%26l%3Due+1%25%2B&k+ey1="
    /\ applied.result.parsed.params = applied.args.l

\* QueryParamsFromRawQueryStr has been applied
ParseApplied == applied.fn = "QueryParamsFromRawQueryStr" /\ applied.done

\* the number of '=' in a fragment
Equals(f) == Cardinality({j \in 1..Len(f) : Char(f, j) = "="})

(***************************************************************************)
(* C25.  QueryParamsFromRawQueryStr returns no parameters and no error for *)
(* the empty string.  For any other string, whose fragments are what       *)
(* stands between the '&', it fails and returns no parameters when a       *)
(* fragment does not hold exactly one '=' (a bare name, an empty fragment, *)
(* two '='); when it succeeds it returns one pair for each fragment, in    *)
(* the order of the fragments, a name that occurs twice being kept twice:  *)
(* the unescaped text before the '=' and the unescaped text after it.      *)
(* (FuncSpec)                                                              *)
(***************************************************************************)
C25_ParseFragments ==
    ParseApplied =>
        LET frags == applied.args.frags
            s == applied.args.s
            res == applied.result
        IN /\ s = "" => res.ok /\ res.params = <<>>
           /\ s # "" /\ (\E i \in 1..Len(frags) : Equals(frags[i]) # 1) => ~res.ok
           /\ ~res.ok => res.params = <<>>
           /\ s # "" /\ res.ok =>
                 /\ Len(res.params) = Len(frags)
                 /\ \A i \in 1..Len(frags) :
                       LET at == Index(frags[i], "=")
                           name == QueryUnescape(SubSeq(frags[i], 1, at))
                           value == QueryUnescape(
                                       SubSeq(frags[i], at + 2, Len(frags[i])))
                       IN res.params[i] = <<name.s, value.s>>

\* a well-formed fragment, an empty one and one with two '='
C25_Witness ==
    /\ ParseApplied
    /\ applied.args.s = "key1=value1&&a=b=c"
    /\ applied.result = [ok |-> FALSE, params |-> <<>>]

\* createPerTorrent has been applied
CreateApplied == applied.fn = "createPerTorrent" /\ applied.done

Digits == {"0", "1", "2", "3", "4", "5", "6", "7", "8", "9"}
LowerLetters ==
    {"a", "b", "c", "d", "e", "f", "g", "h", "i", "j", "k", "l", "m", "n", "o",
     "p", "q", "r", "s", "t", "u", "v", "w", "x", "y", "z"}

\* every character of s from place first on is in set
AllIn(s, first, set) == \A i \in first..Len(s) : Char(s, i) \in set

(***************************************************************************)
(* C26.  The identity createPerTorrent returns has a peer_id of exactly 20 *)
(* bytes, "-TR4060-" followed by 12 characters of [0-9a-z], and a key of   *)
(* exactly 8 characters of [0-9A-F], whatever crypto/rand delivers.        *)
(* (FuncSpec)                                                              *)
(***************************************************************************)
C26_IdentityFormat ==
    CreateApplied =>
        LET pt == applied.result IN
        /\ Len(pt.peerID) = 20
        /\ SubSeq(pt.peerID, 1, 8) = "-TR4060-"
        /\ AllIn(pt.peerID, 9, Digits \cup LowerLetters)
        /\ Len(pt.key) = 8
        /\ AllIn(pt.key, 1, Digits \cup {"A", "B", "C", "D", "E", "F"})

\* the last index of charSet twelve times and four bytes below 16
C26_Witness ==
    /\ CreateApplied
    /\ applied.args.draw.kb = <<10, 10, 10, 10>>
    /\ applied.result.peerID = "-TR4060-zzzzzzzzzzzz"
    /\ applied.result.key = "0A0A0A0A"

(***************************************************************************)
(* C27.  Once the stopped announce that cancels the scrape task of a key   *)
(* has returned, no scrape request is sent for that task any more: a run   *)
(* of the task that is waiting for a token of the rate limiter does not    *)
(* get past the wait, and a run that is past it does not send.             *)
(* (ScrapeSpec)                                                            *)
(***************************************************************************)
C27_NoScrapeAfterStop ==
    [][\A i \in DOMAIN runs :
          i \in abandoned =>
             /\ ~(runs[i].pc = "wait" /\ runs'[i].pc = "request")
             /\ ~(runs[i].pc = "request" /\ sent' # sent
                    /\ runs'[i].pc = "done")]_vars

\* the sequential goroutine is in an announce that passes every check of
\* the input
InValidAnnounce ==
    /\ pc[1] # "idle"
    /\ ~IsScrape(req[1])
    /\ ~FailsValidation(QueryOf[req[1].url])
    /\ ~MissesRequired(QueryOf[req[1].url])

\* the peer_id and key of the query the sequential call has written are
\* those of pt
Carries(pt) ==
    /\ SerializedParams(1).ok
    /\ ValueOf(SerializedParams(1).params, "peer_id") = pt.peerID
    /\ ValueOf(SerializedParams(1).params, "key") = pt.key

(***************************************************************************)
(* C28.  The first valid announce of a key creates its identity whatever   *)
(* its event.  An announce whose event is not started (none, completed,    *)
(* stopped), called when the store has no identity for its key, gets a     *)
(* new identity object from LoadOrStore, which stores it under the key;    *)
(* the call returns nil and the query it has written carries the peer_id   *)
(* and key of that object.  The identity stays stored when the call has    *)
(* returned, unless the event is stopped, which removes it again.          *)
(* (SeqSpec)                                                               *)
(***************************************************************************)
C28_FirstAnnounceCreates ==
    (/\ InValidAnnounce
     /\ eventOf(req[1]) # "started"
     /\ idOf(req[1]) \notin DOMAIN pre[1].torrents
     /\ pc[1] # "loadOrStore")
    => LET k == idOf(req[1]) IN
       /\ ~exists[1]
       /\ got[1] # NoPerTorrent
       /\ got[1].ptr = nextPtr
       /\ \A j \in DOMAIN pre[1].torrents : pre[1].torrents[j].ptr # got[1].ptr
       /\ (pc[1] = "delete" \/ eventOf(req[1]) # "stopped") =>
             k \in DOMAIN torrents /\ torrents[k] = got[1]
       /\ pc[1] = "done" => err[1] = "" /\ Carries(got[1])

\* an announce without event is the first one of its key and has returned
C28_Witness ==
    /\ InValidAnnounce
    /\ pc[1] = "done"
    /\ eventOf(req[1]) = ""
    /\ ~Has(QueryOf[req[1].url], "event")
    /\ Len(hist[idOf(req[1])]) = 1
    /\ idOf(req[1]) \notin DOMAIN pre[1].torrents
    /\ torrents[idOf(req[1])] = got[1]
    /\ err[1] = ""
    /\ Carries(got[1])

(***************************************************************************)
(* C29.  An announce with event=started for a key that has a stored        *)
(* identity is no error: it returns nil, the query it has written carries  *)
(* the peer_id and key that were stored, and from its call to its return   *)
(* the store and the scheduler are as the call found them; scheduleScrape  *)
(* is not called.  (SeqSpec)                                               *)
(***************************************************************************)
C29_StartedAgain ==
    (/\ InValidAnnounce
     /\ eventOf(req[1]) = "started"
     /\ idOf(req[1]) \in DOMAIN pre[1].torrents)
    => LET stored == pre[1].torrents[idOf(req[1])] IN
       /\ torrents = pre[1].torrents
       /\ tasks = pre[1].tasks
       /\ pc[1] # "schedule"
       /\ pc[1] # "loadOrStore" => exists[1] /\ got[1] = stored
       /\ pc[1] = "done" => err[1] = "" /\ Carries(stored)

\* started, then started again for the key, which has its task
C29_Witness ==
    /\ InValidAnnounce
    /\ pc[1] = "done"
    /\ eventOf(req[1]) = "started"
    /\ Len(hist[idOf(req[1])]) = 2
    /\ hist[idOf(req[1])][1].event = "started"
    /\ idOf(req[1]) \in DOMAIN pre[1].torrents
    /\ idOf(req[1]) \in DOMAIN tasks
    /\ torrents = pre[1].torrents
    /\ err[1] = ""
    /\ Carries(pre[1].torrents[idOf(req[1])])

\* the task the sequential call passes to scheduleScrape
TaskOf(r) == newScrapeTask(r.url, infoHashOf(r), privateTrackerQueryOf(r.url.rawQuery))

(***************************************************************************)
(* C30.  scheduleScrape for an id that has a scheduled task replaces that  *)
(* task: when the call is over the scheduler holds, under the id, the task *)
(* the call was given, with its scrape URL.  (ScrapeSpec)                  *)
(***************************************************************************)
C30_SecondRegistrationReplaces ==
    [][(/\ pc[1] = "schedule"
        /\ pc'[1] = "finish"
        /\ TaskOf(req[1]) # NoTask
        /\ idOf(req[1]) \in DOMAIN tasks)
       => /\ idOf(req[1]) \in DOMAIN tasks'
          /\ tasks'[idOf(req[1])] = TaskOf(req[1])]_vars

\* the runs Wait has returned to
GrantsOf(i) == {k \in DOMAIN grants : grants[k].run = i}

\* the tokens handed out from time t1 to time t2
GrantedIn(t1, t2) ==
    Cardinality({k \in DOMAIN grants : grants[k].at >= t1 /\ grants[k].at <= t2})

C32_DirectorNeverWaits ==
    /\ [][pc' # pc =>
             /\ limiter' = limiter
             /\ sent' = sent
             /\ DOMAIN runs' = DOMAIN runs
             /\ \A i \in DOMAIN runs : runs'[i].pc = runs[i].pc]_vars
    /\ (pc[1] \notin {"idle", "done"}) ~> (pc[1] = "done")

\* a started announce has returned and registered its task while the bucket
\* is empty, a released run is about to send, and the run of the new task
\* waits for a token
C32_Witness ==
    /\ pc[1] = "done"
    /\ err[1] = ""
    /\ eventOf(req[1]) = "started"
    /\ limiter.tokens = 0
    /\ \E i \in DOMAIN runs : runs[i].pc = "request"
    /\ \E i \in DOMAIN runs : runs[i].pc = "wait" /\ runs[i].id = idOf(req[1])

\* run i ends in this step with a failure
FailsNow(i) ==
    /\ runs[i].pc # "done"
    /\ runs'[i].pc = "done"
    /\ runs'[i].failure # ""

(***************************************************************************)
(* C33.  A failure inside a run is not propagated: in the step in which a  *)
(* run ends with a failure its task function returns nil, the scheduler    *)
(* keeps every task it has, that of the run's id included unless a stopped *)
(* announce has cancelled it, and the identity store is as it was.         *)
(* (ScrapeSpec)                                                            *)
(***************************************************************************)
C33_FailureNotPropagated ==
    [][\A i \in DOMAIN runs :
          FailsNow(i) =>
             /\ runs'[i].returned = "nil"
             /\ tasks' = tasks
             /\ torrents' = torrents
             /\ (~runs[i].cancelled => /\ runs[i].id \in DOMAIN tasks'
                                       /\ tasks'[runs[i].id] = runs[i].task)]_vars

\* a run of the task has ended with an error of the transport, the task is
\* scheduled still, with the identity of its key in the store, and its next
\* run has sent its request
C33_Witness ==
    /\ Len(runs) = 2
    /\ runs[1].pc = "done"
    /\ runs[1].failure = "transport"
    /\ runs[1].returned = "nil"
    /\ ~runs[1].cancelled
    /\ runs[1].id \in DOMAIN tasks
    /\ runs[1].id \in DOMAIN torrents
    /\ runs[2].id = runs[1].id
    /\ runs[2].pc = "done"
    /\ runs[2].failure = ""
    /\ Len(sent) = 2

ScheduleApplied == applied.fn = "scheduleScrape" /\ applied.done

\* the jitter of the task registered: its start time less the registration
\* instant
JitterOf == applied.result.StartAfter - applied.args.now

\* every jitter the draws of Int64N(9*1000) give
Jitters == {startDelay(n) : n \in Int64N(9 * 1000)}

(***************************************************************************)
(* C34, as stated.  The jitter d of a newly registered task has            *)
(* 1000 ms <= d <= 10000 ms, every value of that closed range is possible, *)
(* and the repeat interval is 30 minutes.  (FuncSpec)                      *)
(***************************************************************************)
C34_JitterClosedRange ==
    ScheduleApplied =>
       /\ JitterOf \in 1000..10000
       /\ applied.result.Interval = 30 * 60 * 1000
       /\ (applied.args.n = 0 => Jitters = 1000..10000)

(***************************************************************************)
(* C34, amended.  The jitter d of a newly registered task has              *)
(* 1000 ms <= d <= 9999 ms, every value of that range is possible, and the *)
(* repeat interval is 30 minutes; the task does not start earlier than     *)
(* 1000 ms after its registration.  (FuncSpec)                             *)
(***************************************************************************)
C34_JitterHalfOpenRange ==
    ScheduleApplied =>
       /\ JitterOf \in 1000..9999
       /\ applied.result.Interval = 30 * 60 * 1000
       /\ applied.result.StartAfter >= applied.args.now + 1000
       /\ (applied.args.n = 0 => Jitters = 1000..9999)

\* the largest draw: the task starts 9999 ms after its registration
C34_Witness ==
    /\ ScheduleApplied
    /\ applied.args.n = 8999
    /\ applied.args.now = 12345
    /\ applied.result.StartAfter = 12345 + 9999

\* the path of a tracker that has no scrape: it does not end with
\* "/announce", and the request is no scrape request
NoScrapePath(r) ==
    /\ ~HasSuffix(r.url.path, "/announce")
    /\ ~LastSegmentIsScrape(r.url.path)

\* the announces of such trackers that have an info_hash
NoScrapeAnnounces ==
    {r \in SeqRequests : NoScrapePath(r) /\ Has(QueryOf[r.url], "info_hash")
                            /\ Get(QueryOf[r.url], "info_hash") # ""}

(***************************************************************************)
(* C35.  For a tracker whose announce path does not end with "/announce"   *)
(* the scheduler never holds a task under the key of any of its announces; *)
(* a valid announce of it returns nil with the identity of its key in the  *)
(* query, which is the identity stored before the call when there was one, *)
(* and which is in the store when the call returns unless the event is     *)
(* stopped.  (SeqSpec)                                                     *)
(***************************************************************************)
C35_NoTaskWithoutAnnouncePath ==
    /\ \A r \in NoScrapeAnnounces : KeyOf(r) \notin DOMAIN tasks
    /\ (InValidAnnounce /\ NoScrapePath(req[1]) /\ pc[1] = "done") =>
          LET k == KeyOf(req[1]) IN
          /\ err[1] = ""
          /\ Carries(got[1])
          /\ got[1] # NoPerTorrent
          /\ k \in DOMAIN pre[1].torrents => got[1] = pre[1].torrents[k]
          /\ eventOf(req[1]) # "stopped" =>
                k \in DOMAIN torrents /\ torrents[k] = got[1]

\* the second started announce of such a tracker has returned with the
\* identity the first one stored, and no task is scheduled
C35_Witness ==
    /\ InValidAnnounce
    /\ NoScrapePath(req[1])
    /\ pc[1] = "done"
    /\ err[1] = ""
    /\ eventOf(req[1]) = "started"
    /\ KeyOf(req[1]) \in DOMAIN pre[1].torrents
    /\ got[1] = pre[1].torrents[KeyOf(req[1])]
    /\ Carries(got[1])
    /\ tasks = [k \in {} |-> NoTask]

(***************************************************************************)
(* C36.  When HttpRequestDirector returns an error the request is as it    *)
(* was received: the same raw query, the same headers, and nothing else of *)
(* it changed.  (QuerySpec)                                                *)
(***************************************************************************)
C36_ErrorLeavesRequest ==
    (pc[1] = "done" /\ err[1] # "") =>
        /\ out[1].url.rawQuery = req[1].url.rawQuery
        /\ out[1].header = req[1].header
        /\ out[1] = req[1]

\* an announce that passes the checks of modifyQuery and lacks a parameter
\* ProcessQuery requires has returned its error: the identity is created,
\* the request has the headers of the host and not those of Transmission
C36_Witness ==
    /\ pc[1] = "done"
    /\ err[1] # ""
    /\ ~FailsValidation(QueryOf[req[1].url])
    /\ MissesRequired(QueryOf[req[1].url])
    /\ got[1] # NoPerTorrent
    /\ out[1] = req[1]
    /\ out[1].header # modifyHeaders(req[1]).header

\* the private prefix with which the host built announce r
PrefixOf(r) ==
    CHOOSE x \in {"", "auth=123"} :
        \E e \in Events : r = MkRequest("t1", "/announce", x, e, "ok")

\* the scrape URL of tracker t1 for info_hash h1 with private prefix x
ScrapeURLWith(x) ==
    [scheme |-> "http", host |-> "t1", path |-> "/scrape",
     rawQuery |-> (IF x = "" THEN "" ELSE x \o "&") \o "info_hash=h1"]

(***************************************************************************)
(* C37.  The key of an announce is made of its URL without the query and   *)
(* of its info_hash: announces that differ in their private prefix only    *)
(* have one key, hence one identity, which an announce of either prefix    *)
(* gets from the store, and one scrape task.  The task has the scrape URL  *)
(* with the prefix of the announce that registered it, and no step of a    *)
(* later announce changes a task the scheduler holds.  (ScrapeSpec)        *)
(***************************************************************************)
C37_KeyIgnoresPrefix ==
    [][/\ DOMAIN torrents' \subseteq {"http://t1/announce--h1"}
       /\ DOMAIN tasks' \subseteq {"http://t1/announce--h1"}
       /\ \A k \in DOMAIN tasks \cap DOMAIN tasks' : tasks'[k] = tasks[k]
       /\ \A k \in DOMAIN tasks' \ DOMAIN tasks :
             /\ pc[1] = "schedule"
             /\ tasks'[k].scrapeURL = ScrapeURLWith(PrefixOf(req[1]))
       /\ (/\ pc[1] = "loadOrStore"
           /\ pc'[1] # "loadOrStore"
           /\ "http://t1/announce--h1" \in DOMAIN torrents)
          => /\ got'[1] = torrents["http://t1/announce--h1"]
             /\ exists'[1]]_vars

\* an announce without prefix has returned with the identity that the
\* started announce with prefix auth=123 stored, and the task still has the
\* scrape URL with that prefix
C37_Witness ==
    /\ pc[1] = "done"
    /\ err[1] = ""
    /\ PrefixOf(req[1]) = ""
    /\ eventOf(req[1]) # "stopped"
    /\ nextPtr = 2
    /\ announces = 2
    /\ DOMAIN torrents = {"http://t1/announce--h1"}
    /\ got[1] = torrents["http://t1/announce--h1"]
    /\ got[1].ptr = 1
    /\ DOMAIN tasks = {"http://t1/announce--h1"}
    /\ tasks["http://t1/announce--h1"].scrapeURL = ScrapeURLWith("auth=123")

IdsApplied == applied.fn = "perTrackerTorrentID" /\ applied.done

\* the announce URL without its query
BaseURL(u) == u.scheme \o "://" \o u.host \o u.path

(***************************************************************************)
(* C38.  The store key is injective on the pairs of announce base URL and  *)
(* info_hash: two announces that differ in the base URL or in the          *)
(* info_hash have different ids, so that they have different entries of    *)
(* the store and of the scheduler.  (FuncSpec)                             *)
(***************************************************************************)
C38_KeyInjective ==
    IdsApplied =>
       LET a == applied.args.a
           b == applied.args.b
       IN (BaseURL(a.u) # BaseURL(b.u) \/ a.infoHash # b.infoHash)
             => applied.result.a # applied.result.b

====
